---- MODULE Spec2Model ----
(***************************************************************************)
(* A model of the TDS challan processor: the ChallanValidator rule engine  *)
(* (validation/validator.py), the ChallanRecord data model                 *)
(* (models/challan.py) and the ExtractionPipeline's merge and process      *)
(* logic (extraction/pipeline.py).                                         *)
(*                                                                         *)
(* Conventions.                                                            *)
(*   Optional[T]  : <<>> is None, <<v>> is the value v.                    *)
(*   str          : a sequence of one-character strings.                   *)
(*   float amount : an integer number of hundredths (10,000.00 = 1000000). *)
(*   confidence   : an integer number of hundredths (0.85 = 85).           *)
(*   date         : <<year, month, day>>.                                  *)
(*   sha256(..)[:16] is taken to be collision free: a hash is modelled as  *)
(*   the text that is digested.                                            *)
(***************************************************************************)
EXTENDS Integers, Sequences, FiniteSets, TLC

VARIABLES
    recs,       \* the ChallanRecord objects the caller holds: id -> record
    seen,       \* ChallanValidator._seen_hashes
    results,    \* id -> the ValidationResult of the last validate() of that record
    today,      \* the last reading of date.today()
    validated,  \* history: the (cin, challan_no, date_of_deposit) triples validated since the last reset
    last,       \* history: the last call made on the validator
    threads,    \* id -> the position of the thread that validates that record, with its locals
    primary,    \* _merge_fields: the first argument
    secondary,  \* _merge_fields: the second argument
    merged,     \* _merge_fields: the returned map, None before the call
    ocr_extractor,  \* ExtractionPipeline: self.ocr_extractor is set and available
    proc,       \* the locals and the result of a process() call, None before the call
    blocks,     \* _group_into_lines: the list of TextBlocks passed
    lines,      \* _group_into_lines: the returned list of lines, None before the call
    session,    \* api: sessions[session_id], None before the upload
    task,       \* api: a _process_files background task is queued
    response    \* api: history, the body of the last response

valVars == <<recs, seen, results, today, validated, last, threads>>

mergeVars == <<primary, secondary, merged>>

procVars == <<ocr_extractor, proc>>

layoutVars == <<blocks, lines>>

apiVars == <<session, task, response>>

---------------------------------------------------------------------------
(* Optional values and text *)

None == <<>>

Some(v) == <<v>>

IsNone(o) == o = <<>>

Val(o) == o[1]

\* Python truthiness of an Optional[str]: None and "" are falsy.
TruthyStr(o) == ~IsNone(o) /\ Val(o) # <<>>

UpperCase == {"A", "B", "C", "D", "E", "F", "G", "H", "I", "J", "K", "L", "M",
              "N", "O", "P", "Q", "R", "S", "T", "U", "V", "W", "X", "Y", "Z"}

DigitChars == {"0", "1", "2", "3", "4", "5", "6", "7", "8", "9"}

DigitChar(n) == CASE n = 0 -> "0" [] n = 1 -> "1" [] n = 2 -> "2" [] n = 3 -> "3"
                  [] n = 4 -> "4" [] n = 5 -> "5" [] n = 6 -> "6" [] n = 7 -> "7"
                  [] n = 8 -> "8" [] OTHER -> "9"

---------------------------------------------------------------------------
(* Dates: datetime.date comparison, subtraction and str() *)

IsLeap(y) == (y % 4 = 0) /\ ((y % 100 # 0) \/ (y % 400 = 0))

DaysBeforeMonth(y, m) ==
    LET cum == <<0, 31, 59, 90, 120, 151, 181, 212, 243, 273, 304, 334>>
    IN  cum[m] + (IF m > 2 /\ IsLeap(y) THEN 1 ELSE 0)

\* date.toordinal(): days since 0001-01-01, that day being 1.
Ordinal(d) ==
    LET y == d[1] - 1
    IN  y * 365 + (y \div 4) - (y \div 100) + (y \div 400) + DaysBeforeMonth(d[1], d[2]) + d[3]

\* str(date): YYYY-MM-DD.
DateStr(d) ==
    << DigitChar(d[1] \div 1000), DigitChar((d[1] \div 100) % 10),
       DigitChar((d[1] \div 10) % 10), DigitChar(d[1] % 10), "-",
       DigitChar(d[2] \div 10), DigitChar(d[2] % 10), "-",
       DigitChar(d[3] \div 10), DigitChar(d[3] % 10) >>

---------------------------------------------------------------------------
(* Configuration: config/settings.py *)

sum_check_tolerance == 100

cin_min_length == 15

OldDateDays == 3650

\* re.match(r"^[A-Z]{4}[0-9]{5}[A-Z]$", s); "$" also matches before a final newline.
TanPatternMatches(s) ==
    /\ Len(s) \in {10, 11}
    /\ \A i \in 1..4 : s[i] \in UpperCase
    /\ \A i \in 5..9 : s[i] \in DigitChars
    /\ s[10] \in UpperCase
    /\ Len(s) = 11 => s[11] = "\n"

---------------------------------------------------------------------------
(* models/challan.py *)

\* TaxBreakup.total
TaxTotal(tb) == tb[1] + tb[2] + tb[3] + tb[4] + tb[5] + tb[6]

\* A variant of hash_input that digests the TAN as well.
hash_input_WithTan(r) ==
    (IF TruthyStr(r.tan) THEN Val(r.tan) ELSE <<>>)
    \o (IF TruthyStr(r.cin) THEN Val(r.cin) ELSE <<>>)
    \o (IF TruthyStr(r.challan_no) THEN Val(r.challan_no) ELSE <<>>)
    \o (IF IsNone(r.date_of_deposit) THEN <<>> ELSE DateStr(Val(r.date_of_deposit)))

\* The text ChallanRecord.compute_hash digests: the three components one after
\* the other with nothing between them, an absent one as the empty text.
hash_input(r) ==
    (IF TruthyStr(r.cin) THEN Val(r.cin) ELSE <<>>)
    \o (IF TruthyStr(r.challan_no) THEN Val(r.challan_no) ELSE <<>>)
    \o (IF IsNone(r.date_of_deposit) THEN <<>> ELSE DateStr(Val(r.date_of_deposit)))

compute_hash(r) == hash_input(r)

\* ChallanRecord(...) as constructed by a caller: flag PENDING, no notes, no hash.
NewRecord(tan, cin, total, tb, dod, challan, bsr, bank, ded) ==
    [ tan |-> tan, cin |-> cin, total_amount |-> total, tax_breakup |-> tb,
      date_of_deposit |-> dod, challan_no |-> challan, bsr_code |-> bsr,
      bank_name |-> bank, deductor_name |-> ded,
      validation_flag |-> "PENDING", notes |-> <<>>, record_hash |-> None ]

---------------------------------------------------------------------------
(* validation/validator.py: ValidationIssue, ValidationResult and the rules *)

Msg(tmpl, args) == [tmpl |-> tmpl, args |-> args]

ValidationIssue(f, type, msg, sev) ==
    [field |-> f, issue_type |-> type, message |-> msg, severity |-> sev]

\* ValidationResult.has_errors
has_errors(issues) == \E k \in 1..Len(issues) : issues[k].severity = "error"

\* ValidationResult.has_warnings
has_warnings(issues) == \E k \in 1..Len(issues) : issues[k].severity = "warning"

_validate_tan(r) ==
    IF ~TruthyStr(r.tan)
    THEN << ValidationIssue("tan", "missing", Msg("TAN is missing", <<>>), "error") >>
    ELSE IF ~TanPatternMatches(Val(r.tan))
         THEN << ValidationIssue("tan", "format",
                                 Msg("Invalid TAN format: {tan}", <<Val(r.tan)>>), "error") >>
         ELSE <<>>

\* A variant of _validate_cin that is skipped for a record whose TAN has an issue.
_validate_cin_UnlessTanFailed(r) ==
    IF _validate_tan(r) # <<>> THEN <<>>
    ELSE IF ~TruthyStr(r.cin)
    THEN << ValidationIssue("cin", "missing", Msg("CIN is missing", <<>>), "error") >>
    ELSE IF Len(Val(r.cin)) < cin_min_length
         THEN << ValidationIssue("cin", "format",
                                 Msg("CIN too short: {cin} (min {n} chars)", <<Val(r.cin)>>),
                                 "warning") >>
         ELSE <<>>

_validate_cin(r) ==
    IF ~TruthyStr(r.cin)
    THEN << ValidationIssue("cin", "missing", Msg("CIN is missing", <<>>), "error") >>
    ELSE IF Len(Val(r.cin)) < cin_min_length
         THEN << ValidationIssue("cin", "format",
                                 Msg("CIN too short: {cin} (min {n} chars)", <<Val(r.cin)>>),
                                 "warning") >>
         ELSE <<>>

\* A variant of _validate_amounts that takes a zero total for a negative one.
_validate_amounts_ZeroIsNegative(r) ==
    IF IsNone(r.total_amount)
    THEN << ValidationIssue("total_amount", "missing",
                            Msg("Total amount is missing", <<>>), "error") >>
    ELSE (IF Val(r.total_amount) <= 0
          THEN << ValidationIssue("total_amount", "invalid",
                                  Msg("Negative total amount: {amount}", <<Val(r.total_amount)>>),
                                  "error") >>
          ELSE <<>>)
         \o
         (IF Val(r.total_amount) = 0
          THEN << ValidationIssue("total_amount", "suspicious",
                                  Msg("Total amount is zero", <<>>), "warning") >>
          ELSE <<>>)

_validate_amounts(r) ==
    IF IsNone(r.total_amount)
    THEN << ValidationIssue("total_amount", "missing",
                            Msg("Total amount is missing", <<>>), "error") >>
    ELSE (IF Val(r.total_amount) < 0
          THEN << ValidationIssue("total_amount", "invalid",
                                  Msg("Negative total amount: {amount}", <<Val(r.total_amount)>>),
                                  "error") >>
          ELSE <<>>)
         \o
         (IF Val(r.total_amount) = 0
          THEN << ValidationIssue("total_amount", "suspicious",
                                  Msg("Total amount is zero", <<>>), "warning") >>
          ELSE <<>>)

\* A variant of SumDifference that keeps the sign: tax_sum - record.total_amount.
SumDifference_Signed(tax_sum, total) == tax_sum - total

\* abs(tax_sum - record.total_amount)
SumDifference(tax_sum, total) ==
    IF tax_sum - total >= 0 THEN tax_sum - total ELSE total - tax_sum

\* A variant of _validate_sum_check that reports a difference equal to the tolerance.
_validate_sum_check_Inclusive(r) ==
    IF IsNone(r.total_amount)
    THEN <<>>
    ELSE LET tax_sum    == TaxTotal(r.tax_breakup)
             difference == SumDifference(tax_sum, Val(r.total_amount))
         IN  IF difference >= sum_check_tolerance
             THEN << ValidationIssue("tax_breakup", "sum_mismatch",
                        Msg("Tax breakup sum ({tax_sum}) != Total amount ({total}), diff={diff}",
                            <<tax_sum, Val(r.total_amount), difference>>),
                        "error") >>
             ELSE <<>>

_validate_sum_check(r) ==
    IF IsNone(r.total_amount)
    THEN <<>>
    ELSE LET tax_sum    == TaxTotal(r.tax_breakup)
             difference == SumDifference(tax_sum, Val(r.total_amount))
         IN  IF difference > sum_check_tolerance
             THEN << ValidationIssue("tax_breakup", "sum_mismatch",
                        Msg("Tax breakup sum ({tax_sum}) != Total amount ({total}), diff={diff}",
                            <<tax_sum, Val(r.total_amount), difference>>),
                        "error") >>
             ELSE <<>>

_validate_dates(r, t) ==
    IF IsNone(r.date_of_deposit)
    THEN << ValidationIssue("date_of_deposit", "missing",
                            Msg("Date of deposit is missing", <<>>), "error") >>
    ELSE LET deposit_date == Val(r.date_of_deposit)
         IN  (IF Ordinal(deposit_date) > Ordinal(t)
              THEN << ValidationIssue("date_of_deposit", "future_date",
                         Msg("Date of deposit is in future: {date}", <<DateStr(deposit_date)>>),
                         "warning") >>
              ELSE <<>>)
             \o
             (IF Ordinal(t) - Ordinal(deposit_date) > OldDateDays
              THEN << ValidationIssue("date_of_deposit", "old_date",
                         Msg("Date of deposit is more than 10 years old: {date}",
                             <<DateStr(deposit_date)>>),
                         "warning") >>
              ELSE <<>>)

RequiredIssue(field_name, value) ==
    IF ~TruthyStr(value)
    THEN << ValidationIssue(field_name, "missing", Msg("{Field Name} is missing", <<field_name>>),
                            "warning") >>
    ELSE <<>>

_validate_required_fields(r) ==
    RequiredIssue("challan_no", r.challan_no)
    \o RequiredIssue("bsr_code", r.bsr_code)
    \o RequiredIssue("bank_name", r.bank_name)
    \o RequiredIssue("deductor_name", r.deductor_name)

\* The issues _check_duplicate appends, given the hash it has just computed.
DuplicateIssues(record_hash, s) ==
    IF record_hash \in s
    THEN << ValidationIssue("record", "duplicate",
                            Msg("Duplicate record detected (hash: {hash})", <<record_hash>>),
                            "error") >>
    ELSE <<>>

\* _seen_hashes after _check_duplicate.
SeenAfter(record_hash, s) ==
    IF record_hash \in s THEN s ELSE s \cup {record_hash}

\* record.notes after validate(): rewritten only when there are issues.
NotesAfter(old_notes, issues) ==
    IF issues # <<>>
    THEN [k \in 1..Len(issues) |-> <<issues[k].field, issues[k].message>>]
    ELSE old_notes

\* A variant of FlagAfter that flags a record with any issue, warnings included.
FlagAfter_AnyIssue(issues) == IF issues # <<>> THEN "FLAG" ELSE "OK"

\* record.validation_flag after validate().
FlagAfter(issues) == IF has_errors(issues) THEN "FLAG" ELSE "OK"

\* ChallanValidator.validate(record) with _seen_hashes = s and date.today() = t:
\* the record as it leaves, the new _seen_hashes and the ValidationResult.
validate(r, s, t) ==
    LET record_id   == IF ~IsNone(r.record_hash) /\ Val(r.record_hash) # <<>>
                       THEN <<"hash", Val(r.record_hash)>>
                       ELSE IF TruthyStr(r.cin) THEN <<"cin", Val(r.cin)>>
                            ELSE <<"unknown">>
        record_hash == compute_hash(r)
        issues      == _validate_tan(r) \o _validate_cin(r) \o _validate_amounts(r)
                       \o _validate_sum_check(r) \o _validate_dates(r, t)
                       \o _validate_required_fields(r) \o DuplicateIssues(record_hash, s)
    IN  [ record |-> [r EXCEPT !.record_hash = Some(record_hash),
                               !.validation_flag = FlagAfter(issues),
                               !.notes = NotesAfter(r.notes, issues)],
          seen   |-> SeenAfter(record_hash, s),
          result |-> [record_id |-> record_id, is_valid |-> ~has_errors(issues),
                      issues |-> issues] ]

---------------------------------------------------------------------------
(* The values the callers' records are drawn from *)

TAN_OK == <<"B", "L", "R", "S", "0", "5", "5", "8", "6", "H">>

TAN_BAD == <<"I", "N", "V", "A", "L", "I", "D">>

\* 15 characters: exactly cin_min_length.
CIN_15 == <<"2", "5", "1", "0", "0", "7", "0", "0", "5", "1", "7", "H", "D", "F", "C">>

\* 14 characters: one short of cin_min_length.
CIN_14 == <<"2", "5", "1", "0", "0", "7", "0", "0", "5", "1", "H", "D", "F", "C">>

CHALLAN == <<"1", "2", "8", "6", "6">>

NAME == <<"x">>

TanValues == {None, Some(TAN_BAD), Some(TAN_OK)}

CinValues == {None, Some(CIN_14), Some(CIN_15)}

\* total_amount, in hundredths: absent, -1.00, 0.00, 10,000.00
TotalValues == {None, Some(-100), Some(0), Some(1000000)}

\* Tax breakups, in hundredths; their sums lie at, just inside and just outside
\* the tolerance around the totals above.
TaxValues ==
    { <<0, 0, 0, 0, 0, 0>>, <<50, 50, 0, 0, 0, 0>>, <<100, 0, 0, 0, 0, 1>>,
      <<500000, 0, 0, 0, 0, 0>>, <<999899, 0, 0, 0, 0, 0>>, <<999800, 50, 25, 25, 0, 0>>,
      <<1000000, 50, 50, 0, 0, 0>>, <<1000000, 50, 50, 1, 0, 0>> }

Day1 == <<2025, 10, 8>>

Day2 == <<2025, 10, 9>>

\* The days on which date.today() is read.
Todays == {Day1, Day2}

\* date_of_deposit: absent, an ordinary day, Day2 (in the future only on Day1)
\* and the day 3650 days before Day1 (3651 before Day2).
DateValues == {None, Some(<<2025, 10, 7>>), Some(Day2), Some(<<2015, 10, 11>>)}

\* (challan_no, bsr_code, bank_name, deductor_name)
DescriptiveValues ==
    { <<c, d[1], d[2], d[3]>> :
        c \in {None, Some(CHALLAN)},
        d \in { <<Some(NAME), Some(NAME), Some(NAME)>>, <<None, Some(NAME), Some(NAME)>>,
                <<Some(NAME), None, Some(<<>>)>> } }

\* Records that exercise every rule of the validator.
RuleRecords ==
    { NewRecord(tan, cin, total, tb, dod, d[1], d[2], d[3], d[4]) :
        tan \in TanValues, cin \in CinValues, total \in TotalValues, tb \in TaxValues,
        dod \in DateValues, d \in DescriptiveValues }

---------------------------------------------------------------------------
(* The validator's operations *)

NoResult == None

Triple(r) == <<r.cin, r.challan_no, r.date_of_deposit>>

InitValidator(ids, Records, day) ==
    /\ recs \in [ids -> Records]
    /\ seen = {}
    /\ results = [i \in ids |-> NoResult]
    /\ today = day
    /\ validated = [triples |-> {}, ids |-> {}]
    /\ last = [op |-> "new"]
    /\ threads = <<>>

\* validator.validate(recs[i]) on a day t that is not before the last reading.
Validate(i) ==
    \E t \in Todays :
        /\ Ordinal(t) >= Ordinal(today)
        /\ LET out == validate(recs[i], seen, t)
           IN  /\ recs' = [recs EXCEPT ![i] = out.record]
               /\ seen' = out.seen
               /\ results' = [results EXCEPT ![i] = Some(out.result)]
               /\ today' = t
               /\ validated' = [triples |-> validated.triples \cup {Triple(recs[i])},
                                ids |-> validated.ids \cup {i}]
               /\ last' = [op |-> "validate", id |-> i,
                           flag_before |-> recs[i].validation_flag,
                           prev |-> results[i],
                           repeat |-> Triple(recs[i]) \in validated.triples,
                           again |-> i \in validated.ids]
        /\ UNCHANGED threads

\* validator.reset_dedupe_cache()
reset_dedupe_cache ==
    /\ seen' = {}
    /\ validated' = [triples |-> {}, ids |-> {}]
    /\ last' = [op |-> "reset"]
    /\ UNCHANGED <<recs, results, today, threads>>

vars == <<valVars, mergeVars, procVars, layoutVars, apiVars>>

\* The validator is not in use.
ValidatorIdle == InitValidator({}, {}, Day1)

\* The merge is not in use.
MergeIdle ==
    /\ primary = <<>>
    /\ secondary = <<>>
    /\ merged = None

\* The pipeline is not in use.
ProcessIdle ==
    /\ ocr_extractor = FALSE
    /\ proc = None

\* The line grouping is not in use.
LayoutIdle ==
    /\ blocks = <<>>
    /\ lines = None

\* The API has no session.
ApiIdle ==
    /\ session = None
    /\ task = FALSE
    /\ response = None

\* One record on one validator.
Init ==
    /\ InitValidator({1}, RuleRecords, Day1)
    /\ MergeIdle
    /\ ProcessIdle
    /\ LayoutIdle
    /\ ApiIdle

Next ==
    /\ \E i \in DOMAIN recs : Validate(i)
    /\ UNCHANGED <<mergeVars, procVars, layoutVars, apiVars>>

Spec == Init /\ [][Next]_vars

---------------------------------------------------------------------------
(* Several records on one validator: deduplication *)

\* The number of record objects the caller holds.
NumRecords == 2

\* CIN_15 followed by one more character.
CIN_16 == CIN_15 \o <<"1">>

\* CHALLAN less its first character: CIN_16 \o CHALLAN_4 = CIN_15 \o CHALLAN.
CHALLAN_4 == <<"2", "8", "6", "6">>

\* Records that pass every rule and differ only in (cin, challan_no, date_of_deposit).
DedupeRecords ==
    { NewRecord(Some(TAN_OK), Some(cin), Some(1000000), <<1000000, 0, 0, 0, 0, 0>>, dod,
                Some(challan), Some(NAME), Some(NAME), Some(NAME)) :
        cin \in {CIN_15, CIN_16}, challan \in {CHALLAN, CHALLAN_4},
        dod \in {Some(<<2025, 10, 7>>), Some(<<2025, 10, 6>>)} }

InitDedupe ==
    /\ InitValidator(1..NumRecords, DedupeRecords, Day2)
    /\ MergeIdle
    /\ ProcessIdle
    /\ LayoutIdle
    /\ ApiIdle

NextDedupe ==
    \/ (\E i \in DOMAIN recs : Validate(i)) /\ UNCHANGED <<mergeVars, procVars, layoutVars, apiVars>>
    \/ reset_dedupe_cache /\ UNCHANGED <<mergeVars, procVars, layoutVars, apiVars>>

SpecDedupe == InitDedupe /\ [][NextDedupe]_vars

---------------------------------------------------------------------------
(* extraction/pipeline.py: _merge_fields *)

\* FieldConfidence.value is of any type: None, a text or a number.
VNone == <<"none">>

VStr(chars) == <<"str", chars>>

VNum(n) == <<"num", n>>

\* Python truthiness of a value: None, "" and 0.0 are falsy.
Truthy(v) ==
    CASE v[1] = "none" -> FALSE
      [] v[1] = "str"  -> v[2] # <<>>
      [] OTHER         -> v[2] # 0

FieldConfidence(v, c, method, raw) ==
    [value |-> v, confidence |-> c, extraction_method |-> method, raw_text |-> raw]

\* A variant of MergeEntry that gives every tie to the secondary.
MergeEntry_TieToSecondary(pri_field, sec_field) ==
    IF sec_field.confidence >= pri_field.confidence THEN sec_field ELSE pri_field

\* The entry _merge_fields keeps for a field that both maps hold.
MergeEntry(pri_field, sec_field) ==
    IF sec_field.confidence > pri_field.confidence
    THEN sec_field
    ELSE IF sec_field.confidence = pri_field.confidence
              /\ ~Truthy(pri_field.value) /\ Truthy(sec_field.value)
         THEN sec_field
         ELSE pri_field

\* A variant of _merge_fields that drops the fields only the secondary holds.
_merge_fields_PrimaryOnly(pri, sec) ==
    [ field_name \in DOMAIN pri |->
        IF field_name \notin DOMAIN sec THEN pri[field_name]
        ELSE MergeEntry(pri[field_name], sec[field_name]) ]

\* ExtractionPipeline._merge_fields(primary, secondary): a new map.
_merge_fields(pri, sec) ==
    [ field_name \in DOMAIN pri \cup DOMAIN sec |->
        IF field_name \notin DOMAIN pri THEN sec[field_name]
        ELSE IF field_name \notin DOMAIN sec THEN pri[field_name]
        ELSE MergeEntry(pri[field_name], sec[field_name]) ]

\* The field maps a merge is tried on.
MergeFieldNames == {"total_amount", "tax_a"}

MergeValues == {VNone, VStr(<<>>), VStr(NAME), VNum(0), VNum(500)}

MergeConfidences == {70, 85}

EntriesOf(method, raw) ==
    { FieldConfidence(v, c, method, raw) : v \in MergeValues, c \in MergeConfidences }

MapsOf(method, raw) ==
    UNION { [D -> EntriesOf(method, raw)] : D \in SUBSET MergeFieldNames }

InitMerge ==
    /\ primary \in MapsOf("text_regex", Some(<<"p">>))
    /\ secondary \in MapsOf("layout", Some(<<"s">>))
    /\ merged = None
    /\ ValidatorIdle
    /\ ProcessIdle
    /\ LayoutIdle
    /\ ApiIdle

\* A variant of the merge that fills the primary map itself instead of a copy
\* of it (merged = primary in place of merged = dict(primary)).
MergeFields_InPlace ==
    /\ merged = None
    /\ merged' = Some(_merge_fields(primary, secondary))
    /\ primary' = _merge_fields(primary, secondary)
    /\ UNCHANGED <<secondary, valVars, procVars, layoutVars, apiVars>>

\* merged = self._merge_fields(primary, secondary)
MergeFields ==
    /\ merged = None
    /\ merged' = Some(_merge_fields(primary, secondary))
    /\ UNCHANGED <<primary, secondary, valVars, procVars, layoutVars, apiVars>>

SpecMerge == InitMerge /\ [][MergeFields]_vars

---------------------------------------------------------------------------
(* Text helpers: str.upper(), str.lower(), re.sub, float(), strptime *)

UpperLetters == <<"A", "B", "C", "D", "E", "F", "G", "H", "I", "J", "K", "L", "M", "N", "O", "P", "Q", "R", "S", "T", "U", "V", "W", "X", "Y", "Z">>

LowerLetters == <<"a", "b", "c", "d", "e", "f", "g", "h", "i", "j", "k", "l", "m", "n", "o", "p", "q", "r", "s", "t", "u", "v", "w", "x", "y", "z">>

LetterIndex(c, letters) == CHOOSE k \in 1..26 : letters[k] = c

UpperChar(c) ==
    IF \E k \in 1..26 : LowerLetters[k] = c THEN UpperLetters[LetterIndex(c, LowerLetters)] ELSE c

LowerChar(c) ==
    IF \E k \in 1..26 : UpperLetters[k] = c THEN LowerLetters[LetterIndex(c, UpperLetters)] ELSE c

\* str.upper()
Upper(chars) == [k \in 1..Len(chars) |-> UpperChar(chars[k])]

\* str.lower()
Lower(chars) == [k \in 1..Len(chars) |-> LowerChar(chars[k])]

\* The rupee sign, one character.
RupeeSign == "<rupee>"

\* chars without the characters of the set drop.
RemoveChars(chars, drop) ==
    LET Keep(c) == c \notin drop
    IN  SelectSeq(chars, Keep)

IsDigits(chars) == chars # <<>> /\ \A k \in 1..Len(chars) : chars[k] \in DigitChars

DigitValue(c) == CHOOSE n \in 0..9 : DigitChar(n) = c

RECURSIVE ToInt(_)
\* int() of a text of digits; 0 for the empty text.
ToInt(chars) ==
    IF chars = <<>> THEN 0
    ELSE 10 * ToInt(SubSeq(chars, 1, Len(chars) - 1)) + DigitValue(chars[Len(chars)])

\* The first position of character c in chars, 0 if there is none.
IndexOf(chars, c) ==
    IF \E k \in 1..Len(chars) : chars[k] = c
    THEN CHOOSE k \in 1..Len(chars) : chars[k] = c /\ \A j \in 1..(k - 1) : chars[j] # c
    ELSE 0

RECURSIVE Split(_, _)
\* str.split(sep): the parts of chars between the separator characters.
Split(chars, sep) ==
    LET k == IndexOf(chars, sep)
    IN  IF k = 0 THEN <<chars>>
        ELSE <<SubSeq(chars, 1, k - 1)>> \o Split(SubSeq(chars, k + 1, Len(chars)), sep)

\* float() of a text without sign or exponent: digits, with or without a
\* decimal part of up to two digits. Some(hundredths), or None for ValueError.
ParseFloat(chars) ==
    LET parts == Split(chars, ".")
        whole == parts[1]
        frac  == IF Len(parts) = 2 THEN parts[2] ELSE <<>>
    IN  IF /\ Len(parts) <= 2
           /\ whole = <<>> \/ IsDigits(whole)
           /\ frac = <<>> \/ (IsDigits(frac) /\ Len(frac) <= 2)
           /\ whole # <<>> \/ frac # <<>>
        THEN Some(ToInt(whole) * 100
                  + (IF Len(frac) = 1 THEN 10 * ToInt(frac) ELSE ToInt(frac)))
        ELSE None

MonthAbbreviations ==
    << <<"j", "a", "n">>,
       <<"f", "e", "b">>,
       <<"m", "a", "r">>,
       <<"a", "p", "r">>,
       <<"m", "a", "y">>,
       <<"j", "u", "n">>,
       <<"j", "u", "l">>,
       <<"a", "u", "g">>,
       <<"s", "e", "p">>,
       <<"o", "c", "t">>,
       <<"n", "o", "v">>,
       <<"d", "e", "c">> >>

MonthNames ==
    << <<"j", "a", "n", "u", "a", "r", "y">>,
       <<"f", "e", "b", "r", "u", "a", "r", "y">>,
       <<"m", "a", "r", "c", "h">>,
       <<"a", "p", "r", "i", "l">>,
       <<"m", "a", "y">>,
       <<"j", "u", "n", "e">>,
       <<"j", "u", "l", "y">>,
       <<"a", "u", "g", "u", "s", "t">>,
       <<"s", "e", "p", "t", "e", "m", "b", "e", "r">>,
       <<"o", "c", "t", "o", "b", "e", "r">>,
       <<"n", "o", "v", "e", "m", "b", "e", "r">>,
       <<"d", "e", "c", "e", "m", "b", "e", "r">> >>

DaysInMonth(y, m) ==
    IF m = 2 THEN (IF IsLeap(y) THEN 29 ELSE 28)
    ELSE IF m \in {4, 6, 9, 11} THEN 30 ELSE 31

\* validation_config.date_formats: the separator and the three directives of each.
date_formats ==
    << [sep |-> "-", parts |-> <<"d", "b", "Y">>],
       [sep |-> "/", parts |-> <<"d", "m", "Y">>],
       [sep |-> "-", parts |-> <<"Y", "m", "d">>],
       [sep |-> "-", parts |-> <<"d", "m", "Y">>],
       [sep |-> " ", parts |-> <<"d", "b", "Y">>],
       [sep |-> " ", parts |-> <<"d", "B", "Y">>] >>

\* What a strptime directive reads from a part: a number, or 0 if it does not match.
Directive(d, part) ==
    CASE d = "d" -> IF IsDigits(part) /\ Len(part) <= 2 /\ ToInt(part) \in 1..31
                    THEN ToInt(part) ELSE 0
      [] d = "m" -> IF IsDigits(part) /\ Len(part) <= 2 /\ ToInt(part) \in 1..12
                    THEN ToInt(part) ELSE 0
      [] d = "Y" -> IF IsDigits(part) /\ Len(part) = 4 /\ ToInt(part) >= 1
                    THEN ToInt(part) ELSE 0
      [] d = "b" -> IF \E k \in 1..12 : MonthAbbreviations[k] = Lower(part)
                    THEN CHOOSE k \in 1..12 : MonthAbbreviations[k] = Lower(part) ELSE 0
      [] OTHER   -> IF \E k \in 1..12 : MonthNames[k] = Lower(part)
                    THEN CHOOSE k \in 1..12 : MonthNames[k] = Lower(part) ELSE 0

\* The number the directive d of a format reads from the parts, 0 without a match.
DirectiveOf(fmt, parts, d) ==
    LET k == CHOOSE j \in 1..3 : (fmt.parts[j] = d) \/ (d = "m" /\ fmt.parts[j] \in {"b", "B"})
    IN  Directive(fmt.parts[k], parts[k])

\* datetime.strptime(chars, fmt).date(): Some(date), or None for ValueError.
Strptime(chars, fmt) ==
    LET parts == Split(chars, fmt.sep)
    IN  IF Len(parts) # 3 THEN None
        ELSE LET y == DirectiveOf(fmt, parts, "Y")
                 m == DirectiveOf(fmt, parts, "m")
                 d == DirectiveOf(fmt, parts, "d")
             IN  IF y = 0 \/ m = 0 \/ d = 0 THEN None
                 ELSE IF d > DaysInMonth(y, m) THEN None
                 ELSE Some(<<y, m, d>>)

\* The first of the configured formats that parses chars, 0 if none does.
FirstFormat(chars) ==
    IF \E k \in 1..Len(date_formats) : ~IsNone(Strptime(chars, date_formats[k]))
    THEN CHOOSE k \in 1..Len(date_formats) :
             /\ ~IsNone(Strptime(chars, date_formats[k]))
             /\ \A j \in 1..(k - 1) : IsNone(Strptime(chars, date_formats[j]))
    ELSE 0

---------------------------------------------------------------------------
(* extraction/text_extractor.py *)

RECURSIVE LStrip(_)
LStrip(chars) ==
    IF chars # <<>> /\ chars[1] = " " THEN LStrip(Tail(chars)) ELSE chars

Reverse(chars) == [k \in 1..Len(chars) |-> chars[Len(chars) + 1 - k]]

\* str.strip()
Strip(chars) == Reverse(LStrip(Reverse(LStrip(chars))))

\* dict.update(): the entries of b over those of a.
Update(a, b) ==
    [f \in DOMAIN a \cup DOMAIN b |-> IF f \in DOMAIN b THEN b[f] ELSE a[f]]

\* The keys of TextExtractor.FIELD_PATTERNS.
FIELD_PATTERNS ==
    {"tan", "deductor_name", "assessment_year", "financial_year", "major_head",
     "minor_head", "nature_of_payment", "total_amount", "amount_in_words", "cin",
     "bsr_code", "challan_no", "date_of_deposit", "tender_date", "bank_name",
     "bank_ref_no", "mode_of_payment"}

\* The keys of TextExtractor.TAX_PATTERNS.
TAX_PATTERNS == {"tax_a", "tax_b", "tax_c", "tax_d", "tax_e", "tax_f"}

\* TextExtractor._parse_amount: the character class of the re.sub holds the
\* rupee sign, "R", "s", ".", "," and white space.
_parse_amount(value) ==
    IF value = <<>> THEN VNone
    ELSE LET cleaned == RemoveChars(value, {RupeeSign, "R", "s", ".", ",", " "})
             number  == ParseFloat(cleaned)
         IN  IF IsNone(number) THEN VNone ELSE VNum(Val(number))

\* TextExtractor._parse_date: the ISO text of the first format that parses.
_parse_date(value) ==
    IF value = <<>> \/ FirstFormat(value) = 0 THEN VNone
    ELSE VStr(DateStr(Val(Strptime(value, date_formats[FirstFormat(value)]))))

\* TextExtractor._clean_value, for the fields of the model: the clean-up of
\* nature_of_payment, deductor_name and the heads is not modelled.
_clean_value(field_name, value) ==
    IF value = <<>> THEN VNone
    ELSE CASE field_name = "total_amount" -> _parse_amount(Strip(value))
           [] field_name \in {"date_of_deposit", "tender_date"} -> _parse_date(Strip(value))
           [] field_name \in {"tan", "cin"} -> VStr(Strip(Upper(Strip(value))))
           [] OTHER -> VStr(Strip(value))

\* TextExtractor._calculate_field_confidence, in hundredths.
_calculate_field_confidence(field_name, raw_value, cleaned_value) ==
    IF cleaned_value = VNone THEN 30
    ELSE CASE field_name = "tan" ->
                IF TanPatternMatches(cleaned_value[2]) THEN 98 ELSE 60
           [] field_name = "cin" ->
                IF Len(cleaned_value[2]) >= cin_min_length THEN 95 ELSE 70
           [] field_name = "total_amount" ->
                IF cleaned_value[1] = "num" /\ cleaned_value[2] > 0 THEN 95 ELSE 60
           [] field_name \in {"date_of_deposit", "tender_date"} ->
                IF Truthy(cleaned_value) THEN 95 ELSE 50
           [] OTHER -> 90

\* TextExtractor._extract_fields: found maps the fields whose pattern matches
\* the text to the group the pattern captures.
_extract_fields(found) ==
    [ field_name \in DOMAIN found \cap FIELD_PATTERNS |->
        LET raw_value     == Strip(found[field_name])
            cleaned_value == _clean_value(field_name, raw_value)
        IN  FieldConfidence(cleaned_value,
                            _calculate_field_confidence(field_name, raw_value, cleaned_value),
                            "text_regex", Some(raw_value)) ]

\* TextExtractor._extract_tax_breakup
_extract_tax_breakup(found) ==
    [ field_name \in TAX_PATTERNS |->
        IF field_name \in DOMAIN found
        THEN LET raw_value     == Strip(found[field_name])
                 numeric_value == _parse_amount(raw_value)
             IN  FieldConfidence(numeric_value,
                                 IF numeric_value # VNone THEN 95 ELSE 50,
                                 "text_regex", Some(raw_value))
        ELSE FieldConfidence(VNum(0), 80, "default", None) ]

\* What an extractor call comes to: an exception, or the returned field map.
Raised(message) == [raised |-> TRUE, message |-> message, fields |-> <<>>]

Returned(fields) == [raised |-> FALSE, message |-> <<>>, fields |-> fields]

\* TextExtractor.extract on a document: kind "error" is a PDF that cannot be
\* read, kind "empty" one without text.
TextExtractor_extract(doc) ==
    CASE doc.kind = "error" -> Raised(doc.message)
      [] doc.kind = "empty" -> Returned(<<>>)
      [] OTHER -> Returned(Update(_extract_fields(doc.found), _extract_tax_breakup(doc.found)))

---------------------------------------------------------------------------
(* extraction/layout_extractor.py *)

\* The keys of LayoutExtractor.LABEL_KEYWORDS.
LABEL_KEYWORDS == FIELD_PATTERNS

\* LayoutExtractor._extract_fields_from_layout: found maps the fields whose
\* label has a value block to the text of that block.
_extract_fields_from_layout(found) ==
    [ field_name \in DOMAIN found \cap LABEL_KEYWORDS |->
        FieldConfidence(VStr(Strip(found[field_name])), 85, "layout",
                        Some(found[field_name])) ]

\* float(amount_str.replace(",", ""))
FloatWithoutCommas(chars) == ParseFloat(RemoveChars(chars, {","}))

\* LayoutExtractor._extract_tax_table: found maps the tax fields whose line
\* ends in an amount to that amount's text.
_extract_tax_table(found) ==
    [ field_name \in TAX_PATTERNS |->
        IF field_name \in DOMAIN found /\ ~IsNone(FloatWithoutCommas(found[field_name]))
        THEN FieldConfidence(VNum(Val(FloatWithoutCommas(found[field_name]))), 90,
                             "layout_table", Some(found[field_name]))
        ELSE FieldConfidence(VNum(0), 70, "default", None) ]

\* LayoutExtractor.extract: kind "empty" is a first page without words.
LayoutExtractor_extract(doc) ==
    CASE doc.kind = "error" -> Raised(doc.message)
      [] doc.kind = "empty" -> Returned(<<>>)
      [] OTHER -> Returned(Update(_extract_fields_from_layout(doc.found),
                                  _extract_tax_table(doc.found)))

---------------------------------------------------------------------------
(* extraction/ocr_extractor.py *)

\* A variant of _extract_fields_from_ocr that gives the main fields the
\* confidence 0.9 of a text match.
_extract_fields_from_ocr_AsText(found) ==
    LET main == [ field_name \in DOMAIN found \cap FIELD_PATTERNS |->
                    FieldConfidence(VStr(Strip(found[field_name])), 90, "ocr",
                                    Some(Strip(found[field_name]))) ]
        tax  == [ field_name \in TAX_PATTERNS |->
                    IF field_name \in DOMAIN found
                       /\ ~IsNone(FloatWithoutCommas(Strip(found[field_name])))
                    THEN FieldConfidence(
                             VNum(Val(FloatWithoutCommas(Strip(found[field_name])))), 75,
                             "ocr", Some(Strip(found[field_name])))
                    ELSE FieldConfidence(VNum(0), 60, "ocr_default", None) ]
    IN  Update(main, tax)

\* OCRExtractor._extract_fields_from_ocr: found maps the fields whose
\* pattern matches the OCR text to the captured group.
_extract_fields_from_ocr(found) ==
    LET main == [ field_name \in DOMAIN found \cap FIELD_PATTERNS |->
                    FieldConfidence(VStr(Strip(found[field_name])), 70, "ocr",
                                    Some(Strip(found[field_name]))) ]
        tax  == [ field_name \in TAX_PATTERNS |->
                    IF field_name \in DOMAIN found
                       /\ ~IsNone(FloatWithoutCommas(Strip(found[field_name])))
                    THEN FieldConfidence(
                             VNum(Val(FloatWithoutCommas(Strip(found[field_name])))), 75,
                             "ocr", Some(Strip(found[field_name])))
                    ELSE FieldConfidence(VNum(0), 60, "ocr_default", None) ]
    IN  Update(main, tax)

\* OCRExtractor.extract, on a pipeline whose OCR is available.
OCRExtractor_extract(doc) ==
    CASE doc.kind = "error" -> Raised(doc.message)
      [] OTHER -> Returned(_extract_fields_from_ocr(doc.found))

---------------------------------------------------------------------------
(* extraction/pipeline.py: process *)

REQUIRED_FIELDS == {"tan", "cin", "total_amount", "date_of_deposit", "challan_no"}

\* A variant of FIELD_WEIGHTS that gives every field the weight 1.0.
FIELD_WEIGHTS_Uniform(field_name) == 2

\* FIELD_WEIGHTS.get(field_name, 1.0), in halves.
FIELD_WEIGHTS(field_name) ==
    CASE field_name \in {"tan", "cin", "total_amount"} -> 6
      [] field_name \in {"date_of_deposit", "challan_no"} -> 4
      [] field_name \in {"deductor_name", "nature_of_payment"} -> 3
      [] OTHER -> 2

\* A variant of _try_text_extraction that returns the exception as a field.
_try_text_extraction_ReportsError(doc) ==
    LET out == TextExtractor_extract(doc)
    IN  IF out.raised
        THEN [ field_name \in {"error"} |-> FieldConfidence(VStr(out.message), 0, "text_regex", None) ]
        ELSE out.fields

\* ExtractionPipeline._try_text_extraction: the field map, {} on an exception.
_try_text_extraction(doc) ==
    LET out == TextExtractor_extract(doc)
    IN  IF out.raised THEN <<>> ELSE out.fields

\* ExtractionPipeline._try_layout_extraction
_try_layout_extraction(doc) ==
    LET out == LayoutExtractor_extract(doc)
    IN  IF out.raised THEN <<>> ELSE out.fields

\* ExtractionPipeline._try_ocr_extraction
_try_ocr_extraction(doc) ==
    LET out == OCRExtractor_extract(doc)
    IN  IF out.raised THEN <<>> ELSE out.fields

\* A variant of _calculate_completeness that counts only truthy values.
_calculate_completeness_Truthy(fields) ==
    LET found == Cardinality({ f \in REQUIRED_FIELDS :
                                 f \in DOMAIN fields /\ Truthy(fields[f].value) })
    IN  (found * 100) \div Cardinality(REQUIRED_FIELDS)

\* ExtractionPipeline._calculate_completeness, in hundredths.
_calculate_completeness(fields) ==
    LET found == Cardinality({ f \in REQUIRED_FIELDS :
                                 f \in DOMAIN fields /\ fields[f].value # VNone })
    IN  (found * 100) \div Cardinality(REQUIRED_FIELDS)

RECURSIVE WeightedSum(_, _)
\* The sum of weight * confidence over the fields names.
WeightedSum(fields, names) ==
    IF names = {} THEN 0
    ELSE LET f == CHOOSE g \in names : TRUE
         IN  FIELD_WEIGHTS(f) * fields[f].confidence + WeightedSum(fields, names \ {f})

RECURSIVE TotalWeight(_)
TotalWeight(names) ==
    IF names = {} THEN 0
    ELSE LET f == CHOOSE g \in names : TRUE
         IN  FIELD_WEIGHTS(f) + TotalWeight(names \ {f})

\* ExtractionPipeline._calculate_row_confidence: the quotient as the pair
\* <<weighted_sum, total_weight>>, <<0, 1>> for no fields.
_calculate_row_confidence(fields) ==
    IF TotalWeight(DOMAIN fields) = 0 THEN <<0, 1>>
    ELSE <<WeightedSum(fields, DOMAIN fields), TotalWeight(DOMAIN fields)>>

\* The text the source holds for the rupee sign in get_float: three characters.
MisdecodedRupee == <<"<a-circumflex>", "<low-quote>", "<superscript-one>">>

RECURSIVE Replace(_, _)
\* str.replace(pattern, ""), for a non-empty pattern.
Replace(chars, pattern) ==
    IF Len(chars) < Len(pattern) THEN chars
    ELSE IF SubSeq(chars, 1, Len(pattern)) = pattern
         THEN Replace(SubSeq(chars, Len(pattern) + 1, Len(chars)), pattern)
         ELSE <<chars[1]>> \o Replace(Tail(chars), pattern)

\* _build_record.get_value
get_value(fields, field_name) ==
    IF field_name \in DOMAIN fields THEN fields[field_name].value ELSE VNone

\* get_value for an Optional[str] field of the record.
get_text(fields, field_name) ==
    LET val == get_value(fields, field_name)
    IN  IF val = VNone THEN None ELSE Some(val[2])

\* _build_record.get_float, default 0.0
get_float(fields, field_name) ==
    LET val == get_value(fields, field_name)
    IN  CASE val = VNone -> 0
          [] val[1] = "num" -> val[2]
          [] OTHER ->
               LET cleaned == Strip(Replace(Replace(Replace(val[2], <<",">>), MisdecodedRupee),
                                            <<"R", "s", ".">>))
               IN  IF cleaned = <<>> \/ IsNone(ParseFloat(cleaned)) THEN 0
                   ELSE Val(ParseFloat(cleaned))

\* datetime.fromisoformat(val).date() of a YYYY-MM-DD text.
FromIsoFormat(chars) ==
    IF Len(chars) = 10 /\ IsDigits(SubSeq(chars, 6, 7)) /\ IsDigits(SubSeq(chars, 9, 10))
    THEN Strptime(chars, date_formats[3])
    ELSE None

\* _build_record.parse_date
parse_date(fields, field_name) ==
    LET val == get_value(fields, field_name)
    IN  IF val = VNone \/ val[1] # "str" THEN None
        ELSE IF FirstFormat(val[2]) # 0
             THEN Strptime(val[2], date_formats[FirstFormat(val[2])])
             ELSE FromIsoFormat(val[2])

\* ExtractionPipeline._build_record: the record with its hash computed.
_build_record(fields, source_file) ==
    LET tax_breakup == << get_float(fields, "tax_a"), get_float(fields, "tax_b"),
                          get_float(fields, "tax_c"), get_float(fields, "tax_d"),
                          get_float(fields, "tax_e"), get_float(fields, "tax_f") >>
        record == NewRecord(get_text(fields, "tan"), get_text(fields, "cin"),
                            Some(get_float(fields, "total_amount")), tax_breakup,
                            parse_date(fields, "date_of_deposit"),
                            get_text(fields, "challan_no"), get_text(fields, "bsr_code"),
                            get_text(fields, "bank_name"), get_text(fields, "deductor_name"))
    IN  [record EXCEPT !.record_hash = Some(compute_hash(record))]
            @@ [source_file |-> source_file]

\* ExtractionResult(success=True, record=..., extraction_method=..., warnings=...)
ExtractionSuccess(record, extraction_method, warnings) ==
    [ success |-> TRUE, record |-> Some(record), error_message |-> None,
      extraction_method |-> extraction_method, warnings |-> warnings ]

\* A variant of ExtractionFailure that leaves error_message unset.
ExtractionFailure_NoMessage(message) ==
    [ success |-> FALSE, record |-> None, error_message |-> None,
      extraction_method |-> "failed", warnings |-> <<>> ]

\* ExtractionResult(success=False, error_message=str(e), extraction_method="failed")
ExtractionFailure(message) ==
    [ success |-> FALSE, record |-> None, error_message |-> Some(message),
      extraction_method |-> "failed", warnings |-> <<>> ]

\* str(e) of the AttributeError of pdf_path.name when pdf_path is a str.
NoNameMessage == <<"'str' object has no attribute 'name'">>

\* The end of process(): the record is built from the merged fields and
\* returned in a result, or the exception of pdf_path.name is caught.
\* source_file is pdf_path.name, None when pdf_path has no such attribute.
ProcessResult(merged_fields, extraction_method, warnings, source_file) ==
    IF IsNone(source_file) THEN ExtractionFailure(NoNameMessage)
    ELSE ExtractionSuccess(
             _build_record(merged_fields, Val(source_file))
                 @@ [ row_confidence |-> _calculate_row_confidence(merged_fields),
                      field_confidences |-> merged_fields ],
             extraction_method, warnings)

---------------------------------------------------------------------------
(* The documents process() is tried on *)

\* A partial map from an Optional per field: the fields that are not None.
Found(opt) == [f \in { g \in DOMAIN opt : ~IsNone(opt[g]) } |-> Val(opt[f])]

Choice(raws) == {None} \cup { Some(raw) : raw \in raws }

TAN_LOWER == Lower(TAN_OK)

AMOUNT_TEXT == <<"1", "9", ",", "3", "9", "5", ".", "0", "0">>

AMOUNT_ZERO == <<"0", ".", "0", "0">>

\* A text the amount patterns match and float() rejects.
AMOUNT_COMMA == <<",">>

AMOUNT_LAYOUT == <<RupeeSign, " ", "2", "2", ",", "5", "0", "0", ".", "0", "0">>

AMOUNT_TABLE == <<"2", "2", ",", "5", "0", "0", ".", "0", "0">>

AMOUNT_OCR == <<"4", "0", ",", "0", "0", "0", ".", "0", "0">>

DATE_TEXT == <<"0", "7", "-", "O", "c", "t", "-", "2", "0", "2", "5">>

\* A text the date pattern matches and no configured format parses.
DATE_SLASH == <<"0", "7", "/", "O", "c", "t", "/", "2", "0", "2", "5">>

ReadError == <<"cannot read the PDF">>

Document(kind, found) == [kind |-> kind, message |-> ReadError, found |-> found]

\* What the patterns of the text extractor capture from the embedded text.
TextDocuments ==
    {Document("error", <<>>), Document("empty", <<>>)} \cup
    { Document("text", Found([tan |-> tan, cin |-> cin, total_amount |-> total,
                              date_of_deposit |-> dod, challan_no |-> challan, tax_a |-> tax])) :
        tan \in {Some(TAN_LOWER)}, cin \in Choice({CIN_15, CIN_14}),
        total \in Choice({AMOUNT_TEXT, AMOUNT_ZERO, AMOUNT_COMMA}),
        dod \in Choice({DATE_TEXT, DATE_SLASH}), challan \in {Some(CHALLAN)},
        tax \in Choice({AMOUNT_TEXT}) }

\* The value blocks and table amounts the layout extractor finds.
LayoutDocuments ==
    {Document("error", <<>>), Document("empty", <<>>)} \cup
    { Document("text", Found([total_amount |-> total, tax_a |-> tax])) :
        total \in Choice({AMOUNT_LAYOUT}), tax \in Choice({AMOUNT_TABLE}) }

\* What the patterns capture from the OCR text.
OcrDocuments ==
    {Document("error", <<>>)} \cup
    { Document("text", Found([cin |-> cin, date_of_deposit |-> dod, tax_a |-> tax])) :
        cin \in Choice({CIN_14}), dod \in Choice({DATE_TEXT}), tax \in Choice({AMOUNT_OCR}) }

\* pdf_path.name; None for a pdf_path that is a str and has no name.
SourceFiles == {None, Some(<<"challan.pdf">>)}

\* The stages of process() on the documents: whether the extractor raised
\* (history) and the field map its _try_ wrapper returns.
TextStages ==
    { [raised |-> TextExtractor_extract(doc).raised, fields |-> _try_text_extraction(doc)] :
        doc \in TextDocuments }

LayoutStages ==
    { [raised |-> LayoutExtractor_extract(doc).raised, fields |-> _try_layout_extraction(doc)] :
        doc \in LayoutDocuments }

OcrStages ==
    { [raised |-> OCRExtractor_extract(doc).raised, fields |-> _try_ocr_extraction(doc)] :
        doc \in OcrDocuments }

\* The OCR stage of a call that does not reach it.
NoStage == [raised |-> FALSE, fields |-> <<>>]

InitProcess ==
    /\ ocr_extractor \in BOOLEAN
    /\ proc = None
    /\ ValidatorIdle
    /\ MergeIdle
    /\ LayoutIdle
    /\ ApiIdle

\* result = pipeline.process(pdf_path), once on a pipeline, on a document whose
\* stages are drawn from the given sets: proc' holds every local of the call,
\* the extractor and merge calls in their order (history), the stages that
\* raised (history) and the result.
ProcessOn(texts, layouts, ocrs) ==
    /\ proc = None
    /\ \E text \in texts, layout \in layouts, source_file \in SourceFiles :
       \E merged_before \in {_merge_fields(text.fields, layout.fields)} :
       \E completeness \in {_calculate_completeness(merged_before)} :
       \E use_ocr \in {completeness < 70 /\ ocr_extractor} :
       \E ocr \in IF use_ocr THEN ocrs ELSE {NoStage} :
       \E merged_fields \in {IF use_ocr THEN _merge_fields(merged_before, ocr.fields)
                                         ELSE merged_before} :
           proc' = Some(
               [ text_fields |-> text.fields, layout_fields |-> layout.fields,
                 merged_before |-> merged_before, completeness |-> completeness,
                 use_ocr |-> use_ocr, ocr_fields |-> ocr.fields,
                 merged_fields |-> merged_fields,
                 calls |-> <<"text", "layout", "merge">>
                           \o (IF use_ocr THEN <<"ocr", "merge">> ELSE <<>>),
                 raised |-> { stage \in {"text", "layout", "ocr", "build"} :
                                CASE stage = "text"   -> text.raised
                                  [] stage = "layout" -> layout.raised
                                  [] stage = "ocr"    -> ocr.raised
                                  [] OTHER            -> IsNone(source_file) },
                 result |-> ProcessResult(
                     merged_fields,
                     IF use_ocr THEN "text+ocr" ELSE "text",
                     IF use_ocr
                     THEN <<Msg("Low text extraction completeness ({}), used OCR fallback",
                                <<completeness>>)>>
                     ELSE <<>>,
                     source_file) ])
    /\ UNCHANGED <<ocr_extractor, valVars, mergeVars, layoutVars, apiVars>>

Process == ProcessOn(TextStages, LayoutStages, OcrStages)

SpecProcess == InitProcess /\ [][Process]_vars

---------------------------------------------------------------------------
(* api/main.py: a file is processed and validated, then corrected by hand *)

\* pipeline.process(pdf_path) in _process_files, on documents in which no
\* extractor finds an amount other than zero.
ProcessFile ==
    LET NoAmount(s) == /\ "total_amount" \notin DOMAIN s.fields
                       /\ "tax_a" \in DOMAIN s.fields => ~Truthy(s.fields["tax_a"].value)
    IN  ProcessOn({ s \in TextStages : NoAmount(s) }, { s \in LayoutStages : NoAmount(s) },
                  { s \in OcrStages : NoAmount(s) })

\* _process_files after process(): the record of a successful result is
\* validated on the task's validator and appended to the session's records.
ValidateResult ==
    /\ proc # None
    /\ Val(proc).result.success /\ ~IsNone(Val(proc).result.record)
    /\ DOMAIN recs = {}
    /\ \E t \in Todays :
        /\ Ordinal(t) >= Ordinal(today)
        /\ \E out \in {validate(Val(Val(proc).result.record), seen, t)} :
            /\ recs' = [i \in {1} |-> out.record]
            /\ seen' = out.seen
            /\ results' = [i \in {1} |-> Some(out.result)]
            /\ today' = t
            /\ validated' = [triples |-> {Triple(out.record)}, ids |-> {1}]
            /\ last' = [op |-> "validate", id |-> 1, flag_before |-> "PENDING",
                        prev |-> NoResult, repeat |-> FALSE, again |-> FALSE]
    /\ UNCHANGED <<threads, mergeVars, procVars, layoutVars, apiVars>>

\* The bodies of PUT /records: a field that is not sent is None.
RecordUpdates ==
    [ cin : {None, Some(CIN_16)},
      challan_no : {None, Some(CHALLAN_4)},
      date_of_deposit : {None, Some(<<"2", "0", "2", "5", "-", "1", "0", "-", "0", "6">>),
                         Some(<<"0", "6", "-", "1", "0", "-", "2", "0", "2", "5">>)} ]

\* A variant of update_record that validates on the validator the session's
\* records were validated on, without adding to its set.
update_record_SharedValidator(i) ==
    /\ \E update \in RecordUpdates, t \in Todays :
        /\ Ordinal(t) >= Ordinal(today)
        /\ \E parsed \in { IF IsNone(update.date_of_deposit) THEN None
                           ELSE Strptime(Val(update.date_of_deposit), date_formats[3]) } :
           \E edited \in { [recs[i] EXCEPT
                              !.cin = IF IsNone(update.cin) THEN @ ELSE update.cin,
                              !.challan_no = IF IsNone(update.challan_no) THEN @
                                             ELSE update.challan_no,
                              !.date_of_deposit = IF IsNone(parsed) THEN @ ELSE parsed] } :
           \E out \in {validate(edited, seen, t)} :
            /\ recs' = [recs EXCEPT ![i] = out.record]
            /\ results' = [results EXCEPT ![i] = Some(out.result)]
            /\ today' = t
            /\ last' = [op |-> "update", id |-> i,
                        flag_before |-> recs[i].validation_flag,
                        same_triple |-> Triple(edited) = Triple(recs[i])]
    /\ UNCHANGED <<seen, validated, threads, mergeVars, procVars, layoutVars, apiVars>>

\* update_record(session_id, i, update): the fields sent are assigned, a date
\* that does not parse is skipped, and the record is validated on a new validator.
update_record(i) ==
    /\ \E update \in RecordUpdates, t \in Todays :
        /\ Ordinal(t) >= Ordinal(today)
        /\ \E parsed \in { IF IsNone(update.date_of_deposit) THEN None
                           ELSE Strptime(Val(update.date_of_deposit), date_formats[3]) } :
           \E edited \in { [recs[i] EXCEPT
                              !.cin = IF IsNone(update.cin) THEN @ ELSE update.cin,
                              !.challan_no = IF IsNone(update.challan_no) THEN @
                                             ELSE update.challan_no,
                              !.date_of_deposit = IF IsNone(parsed) THEN @ ELSE parsed] } :
           \E out \in {validate(edited, {}, t)} :
            /\ recs' = [recs EXCEPT ![i] = out.record]
            /\ results' = [results EXCEPT ![i] = Some(out.result)]
            /\ today' = t
            /\ last' = [op |-> "update", id |-> i,
                        flag_before |-> recs[i].validation_flag,
                        same_triple |-> Triple(edited) = Triple(recs[i])]
    /\ UNCHANGED <<seen, validated, threads, mergeVars, procVars, layoutVars, apiVars>>

NextPipeline ==
    \/ ProcessFile
    \/ ValidateResult
    \/ \E i \in DOMAIN recs : update_record(i)

SpecPipeline == InitProcess /\ [][NextPipeline]_vars

\* The records of a session: each is validated once by the background task, on
\* the task's validator, and may then be corrected by hand any number of times.
NextCorrection ==
    \/ (\E i \in DOMAIN recs \ validated.ids : Validate(i))
           /\ UNCHANGED <<mergeVars, procVars, layoutVars, apiVars>>
    \/ \E i \in validated.ids : update_record(i)

SpecCorrection == InitDedupe /\ [][NextCorrection]_vars

---------------------------------------------------------------------------
(* validation/validator.py: validate() called from two threads on one validator *)

\* Two threads, each about to call validator.validate on its own record; the
\* validator is new and unguarded.
InitRace ==
    /\ recs \in [1..NumRecords -> DedupeRecords]
    /\ seen = {}
    /\ results = [i \in 1..NumRecords |-> NoResult]
    /\ today \in Todays
    /\ validated = [triples |-> {}, ids |-> {}]
    /\ last = [op |-> "new"]
    /\ threads = [i \in 1..NumRecords |-> [pc |-> "validate", found |-> FALSE]]
    /\ MergeIdle
    /\ ProcessIdle
    /\ LayoutIdle
    /\ ApiIdle

\* A variant of SeenByTest in which the test reads the set at the time of the insert.
SeenByTest_AtInsert(found, record_hash, s) == s

\* _seen_hashes as the membership test of _check_duplicate saw it, as far as
\* record_hash is concerned.
SeenByTest(found, record_hash, s) == IF found THEN {record_hash} ELSE {}

\* Thread i runs validate() up to and including the test
\* `record_hash in self._seen_hashes` of _check_duplicate.
TestSeen(i) ==
    /\ threads[i].pc = "validate"
    /\ \E record_hash \in {compute_hash(recs[i])} :
        /\ recs' = [recs EXCEPT ![i].record_hash = Some(record_hash)]
        /\ threads' = [threads EXCEPT ![i] = [pc |-> "tested", found |-> record_hash \in seen]]
    /\ UNCHANGED <<seen, results, today, validated, last, mergeVars, procVars, layoutVars, apiVars>>

\* Thread i runs the branch the test chose, append the issue or add the hash,
\* and the rest of validate().
AppendOrAdd(i) ==
    /\ threads[i].pc = "tested"
    /\ \E record_hash \in {compute_hash(recs[i])} :
       \E out \in {validate(recs[i], SeenByTest(threads[i].found, record_hash, seen), today)} :
        /\ recs' = [recs EXCEPT ![i] = out.record]
        /\ seen' = IF threads[i].found THEN seen ELSE seen \cup {record_hash}
        /\ results' = [results EXCEPT ![i] = Some(out.result)]
        /\ validated' = [triples |-> validated.triples \cup {Triple(recs[i])},
                         ids |-> validated.ids \cup {i}]
        /\ last' = [op |-> "validate", id |-> i, flag_before |-> recs[i].validation_flag,
                    prev |-> results[i], repeat |-> Triple(recs[i]) \in validated.triples,
                    again |-> i \in validated.ids]
        /\ threads' = [threads EXCEPT ![i].pc = "done"]
    /\ UNCHANGED <<today, mergeVars, procVars, layoutVars, apiVars>>

NextRace ==
    \/ \E i \in DOMAIN threads : TestSeen(i)
    \/ \E i \in DOMAIN threads : AppendOrAdd(i)

SpecRace == InitRace /\ [][NextRace]_vars

---------------------------------------------------------------------------
(* extraction/layout_extractor.py: _group_into_lines *)

\* The default of the parameter y_tolerance.
y_tolerance == 5

\* The most TextBlocks in a list passed to _group_into_lines.
MaxBlocks == 3

\* TextBlock(text, x0, y0, x1, y1): the words of a page, told apart by their
\* top-left corner; x1 and y1 play no part in the grouping.
TextBlocks == [x0 : {0, 10}, y0 : {0, 4, 8, 14}]

RECURSIVE Sorted(_, _)
\* sorted(seq, key=lambda b: (b[key[1]], ...)): a stable sort, an element is
\* placed after every element whose key is not greater than its own.
Sorted(seq, key) ==
    IF seq = <<>> THEN <<>>
    ELSE LET KeyOf(b) == [k \in 1..Len(key) |-> b[key[k]]]
             \* tuple comparison a <= b
             NotGreater(a, b) ==
                 \/ a = b
                 \/ \E k \in 1..Len(a) : a[k] < b[k] /\ \A j \in 1..(k - 1) : a[j] = b[j]
             front == Sorted(SubSeq(seq, 1, Len(seq) - 1), key)
             b     == seq[Len(seq)]
             n     == Cardinality({ k \in 1..Len(front) : NotGreater(KeyOf(front[k]), KeyOf(b)) })
         IN  SubSeq(front, 1, n) \o <<b>> \o SubSeq(front, n + 1, Len(front))

RECURSIVE GroupRest(_, _, _, _)
\* The loop of _group_into_lines over sorted_blocks[1:] and the final append:
\* rest is what is left of the list, done the lines closed so far.
GroupRest(rest, done, current_line, current_y) ==
    IF rest = <<>> THEN Append(done, Sorted(current_line, <<"x0">>))
    ELSE LET block == Head(rest)
             diff  == IF block.y0 >= current_y THEN block.y0 - current_y
                      ELSE current_y - block.y0
         IN  IF diff <= y_tolerance
             THEN GroupRest(Tail(rest), done, Append(current_line, block), current_y)
             ELSE GroupRest(Tail(rest), Append(done, Sorted(current_line, <<"x0">>)),
                            <<block>>, block.y0)

\* LayoutExtractor._group_into_lines(blocks)
_group_into_lines(bs) ==
    IF bs = <<>> THEN <<>>
    ELSE LET sorted_blocks == Sorted(bs, <<"y0", "x0">>)
         IN  GroupRest(Tail(sorted_blocks), <<>>, <<sorted_blocks[1]>>, sorted_blocks[1].y0)

\* A list of up to MaxBlocks different words in any order.
InitLines ==
    /\ blocks \in { bs \in UNION { [1..n -> TextBlocks] : n \in 0..MaxBlocks } :
                      \A j, k \in DOMAIN bs : j # k => bs[j] # bs[k] }
    /\ lines = None
    /\ ValidatorIdle
    /\ MergeIdle
    /\ ProcessIdle
    /\ ApiIdle

\* lines = self._group_into_lines(text_blocks)
GroupIntoLines ==
    /\ lines = None
    /\ lines' = Some(_group_into_lines(blocks))
    /\ UNCHANGED <<blocks, valVars, mergeVars, procVars, apiVars>>

SpecLines == InitLines /\ [][GroupIntoLines]_vars

---------------------------------------------------------------------------
(* validation/validator.py: validate_batch *)

RECURSIVE ValidateEach(_, _, _, _, _)
\* The loop of validate_batch over the records order[1], order[2], ...: the
\* records, _seen_hashes and the results after it.
ValidateEach(order, rs, s, res, t) ==
    IF order = <<>> THEN [recs |-> rs, seen |-> s, results |-> res]
    ELSE LET i   == Head(order)
             out == validate(rs[i], s, t)
         IN  ValidateEach(Tail(order), [rs EXCEPT ![i] = out.record], out.seen,
                          [res EXCEPT ![i] = Some(out.result)], t)

\* The loop of validate_batch, entered with _seen_hashes = s.
ValidateAll(order, s) ==
    /\ \E out \in {ValidateEach(order, recs, s, results, today)} :
        /\ recs' = out.recs
        /\ seen' = out.seen
        /\ results' = out.results
    /\ validated' = [triples |-> { Triple(recs[order[k]]) : k \in DOMAIN order },
                     ids |-> { order[k] : k \in DOMAIN order }]
    /\ last' = [op |-> "batch", order |-> order, seen_before |-> seen]
    /\ UNCHANGED <<today, threads, mergeVars, procVars, layoutVars, apiVars>>

\* A variant of validate_batch that does not reset the dedupe cache.
validate_batch_NoReset(order) == ValidateAll(order, seen)

\* validator.validate_batch(records), records being recs[order[1]], recs[order[2]], ...
validate_batch(order) == ValidateAll(order, {})

\* Single validations and batches of different records on one validator.
NextBatch ==
    \/ (\E i \in DOMAIN recs : Validate(i))
           /\ UNCHANGED <<mergeVars, procVars, layoutVars, apiVars>>
    \/ \E order \in UNION { [1..n -> DOMAIN recs] : n \in 1..NumRecords } :
           /\ \A j, k \in DOMAIN order : j # k => order[j] # order[k]
           /\ validate_batch(order)

SpecBatch == InitDedupe /\ [][NextBatch]_vars

---------------------------------------------------------------------------
(* api/main.py: one upload session, its background task and the status replies *)

MaxFiles == 3

\* The number of times the files of a session are processed before the model stops.
MaxRuns == 2

\* An uploaded file: whether its name ends in .pdf, and whether process() on it
\* gives a record ("record") or fails or raises ("error").
UploadFiles == [pdf : BOOLEAN, outcome : {"record", "error"}]

Uploads == UNION { [1..n -> UploadFiles] : n \in 0..MaxFiles }

\* The reply model; a request that raises HTTPException has only a code.
ProcessingStatus(total_files, processed, status, records, errors) ==
    [code |-> 200, total_files |-> total_files, processed |-> processed, status |-> status,
     records |-> records, errors |-> errors]

HTTPException(status_code) == [code |-> status_code]

InitApi ==
    /\ session = None
    /\ task = FALSE
    /\ response = None
    /\ ValidatorIdle
    /\ MergeIdle
    /\ ProcessIdle
    /\ LayoutIdle

\* POST /upload: no files or a file that is not a PDF is refused; otherwise the
\* session is created pending with processed = 0.
upload_files ==
    /\ session = None
    /\ \E files \in Uploads :
        IF files = <<>> \/ \E k \in DOMAIN files : ~files[k].pdf
        THEN /\ response' = Some(HTTPException(400))
             /\ UNCHANGED session
        ELSE /\ session' = Some([status |-> "pending", files |-> files,
                                 total_files |-> Len(files), processed |-> 0,
                                 records |-> <<>>, errors |-> {}])
             /\ response' = Some(ProcessingStatus(Len(files), 0, "pending", <<>>, {}))
    /\ UNCHANGED <<task, valVars, mergeVars, procVars, layoutVars>>

\* POST /process/{session_id}: 404 without a session; a session that is being
\* processed is reported as it is; any other is set to processing and the
\* background task is queued.
process_session ==
    /\ IF session = None
       THEN /\ response' = Some(HTTPException(404))
            /\ UNCHANGED <<session, task>>
       ELSE IF Val(session).status = "processing"
       THEN /\ response' = Some(ProcessingStatus(Val(session).total_files,
                                                 Val(session).processed, "processing",
                                                 <<>>, {}))
            /\ UNCHANGED <<session, task>>
       ELSE /\ Val(session).processed < MaxRuns * Val(session).total_files
            /\ session' = Some([Val(session) EXCEPT !.status = "processing"])
            /\ task' = TRUE
            /\ response' = Some(ProcessingStatus(Val(session).total_files, 0, "processing",
                                                 <<>>, {}))
    /\ UNCHANGED <<valVars, mergeVars, procVars, layoutVars>>

\* The background task: it holds no await, so it runs in one step of the event
\* loop. Every file adds one to processed; the records and errors of this run
\* replace the session's, and the status becomes completed.
_process_files ==
    /\ task
    /\ LET s == Val(session)
       IN  session' = Some([s EXCEPT
               !.processed = @ + Len(s.files),
               !.records = SelectSeq(s.files, LAMBDA f : f.outcome = "record"),
               !.errors = { k \in DOMAIN s.files : s.files[k].outcome = "error" },
               !.status = "completed"])
    /\ task' = FALSE
    /\ UNCHANGED <<response, valVars, mergeVars, procVars, layoutVars>>

\* GET /status/{session_id}
get_status ==
    /\ response' = Some(IF session = None THEN HTTPException(404)
                        ELSE ProcessingStatus(Val(session).total_files,
                                              Val(session).processed, Val(session).status,
                                              Val(session).records, Val(session).errors))
    /\ UNCHANGED <<session, task, valVars, mergeVars, procVars, layoutVars>>

NextApi ==
    \/ upload_files
    \/ process_session
    \/ _process_files
    \/ get_status

SpecApi == InitApi /\ [][NextApi]_vars

---------------------------------------------------------------------------
(* Properties *)

WasValidated(i) == results[i] # NoResult

IssuesOf(i) == Val(results[i]).issues

\* The issues of a list that satisfy Test, in order.
IssuesWhere(issues, Test(_)) == SelectSeq(issues, Test)

IsError(x) == x.severity = "error"

IsWarning(x) == x.severity = "warning"

IsSumMismatch(x) == x.issue_type = "sum_mismatch"

IsDuplicate(x) == x.issue_type = "duplicate"

OnTotalAmount(x) == x.field = "total_amount"

ErrorElsewhere(x) == x.severity = "error" /\ x.field # "total_amount"

\* C1: after validate(record) the flag is OK or FLAG, never PENDING; it is FLAG
\* exactly when the returned issues hold an error, is_valid is true exactly
\* when the flag is OK, and warnings alone never give FLAG.
C1_FlagIffError ==
    \A i \in DOMAIN recs :
        WasValidated(i) =>
            LET flag     == recs[i].validation_flag
                anyError == \E k \in 1..Len(IssuesOf(i)) : IssuesOf(i)[k].severity = "error"
            IN  /\ flag \in {"OK", "FLAG"}
                /\ (flag = "FLAG") <=> anyError
                /\ Val(results[i]).is_valid <=> (flag = "OK")
                /\ (\A k \in 1..Len(IssuesOf(i)) : IssuesOf(i)[k].severity = "warning")
                       => flag = "OK"

\* A validated record that carries warnings (a short CIN, an old date, a missing
\* descriptive field, a zero amount) and no error, and is OK.
C1_Witness ==
    \E i \in DOMAIN recs :
        /\ WasValidated(i)
        /\ Len(IssuesWhere(IssuesOf(i), IsWarning)) >= 4
        /\ \E k \in 1..Len(IssuesOf(i)) : IssuesOf(i)[k].issue_type = "suspicious"
        /\ Len(IssuesWhere(IssuesOf(i), IsError)) = 0
        /\ recs[i].validation_flag = "OK"

\* C3 as claimed: validating again a record that validate() left OK, with its
\* fields unchanged, on the same validator and with no reset in between, leaves
\* it OK and reports no error that the first result did not hold.
C3_RevalidationIdempotent ==
    (last.op = "validate" /\ last.again /\ last.flag_before = "OK") =>
        /\ recs[last.id].validation_flag = "OK"
        /\ \A k \in 1..Len(IssuesOf(last.id)) :
               IssuesOf(last.id)[k].severity = "error" =>
                   \E j \in 1..Len(Val(last.prev).issues) :
                       Val(last.prev).issues[j] = IssuesOf(last.id)[k]

SumMismatchFlagged(i, diff) ==
    LET mismatches == IssuesWhere(IssuesOf(i), IsSumMismatch)
    IN  /\ recs[i].validation_flag = "FLAG"
        /\ ~Val(results[i]).is_valid
        /\ Len(mismatches) = 1
        /\ mismatches[1].severity = "error"
        /\ mismatches[1].field = "tax_breakup"
        /\ mismatches[1].message.args =
               <<TaxTotal(recs[i].tax_breakup), Val(recs[i].total_amount), diff>>

BeyondTolerance(i) ==
    /\ WasValidated(i)
    /\ ~IsNone(recs[i].total_amount)
    /\ \/ TaxTotal(recs[i].tax_breakup) - Val(recs[i].total_amount) > sum_check_tolerance
       \/ Val(recs[i].total_amount) - TaxTotal(recs[i].tax_breakup) > sum_check_tolerance

\* C5 as claimed: such a record is FLAG with exactly one sum_mismatch error on
\* tax_breakup whose message carries the tax sum, the total and the signed
\* difference between them (total less the tax sum: 5,000.00 for 10,000.00
\* against 5,000.00).
C5_SignedDifference ==
    \A i \in DOMAIN recs :
        BeyondTolerance(i) =>
            SumMismatchFlagged(i, Val(recs[i].total_amount) - TaxTotal(recs[i].tax_breakup))

\* C5 as amended: the message carries the absolute difference.
C5_AbsoluteDifference ==
    \A i \in DOMAIN recs :
        BeyondTolerance(i) =>
            LET d == Val(recs[i].total_amount) - TaxTotal(recs[i].tax_breakup)
            IN  SumMismatchFlagged(i, IF d >= 0 THEN d ELSE 0 - d)

\* Total 10,000.00 against a breakup of 5,000.00, validated, and a record whose
\* breakup exceeds its total, validated.
C5_Witness ==
    /\ \E i \in DOMAIN recs :
           /\ BeyondTolerance(i)
           /\ recs[i].total_amount = Some(1000000)
           /\ TaxTotal(recs[i].tax_breakup) = 500000
           /\ \E k \in 1..Len(IssuesOf(i)) :
                  /\ IssuesOf(i)[k].issue_type = "sum_mismatch"
                  /\ IssuesOf(i)[k].message.args[3] = 500000

\* C6: a total_amount of 0.0 gives exactly one issue on total_amount, a
\* 'suspicious' warning, and the record is OK when nothing else is in error; a
\* negative total_amount gives exactly one issue on total_amount, an error that
\* is not 'suspicious', and the record is FLAG.
C6_AmountBoundary ==
    \A i \in DOMAIN recs :
        (WasValidated(i) /\ ~IsNone(recs[i].total_amount)) =>
            LET amount   == Val(recs[i].total_amount)
                onAmount == IssuesWhere(IssuesOf(i), OnTotalAmount)
            IN  /\ amount = 0 =>
                       /\ Len(onAmount) = 1
                       /\ onAmount[1].issue_type = "suspicious"
                       /\ onAmount[1].severity = "warning"
                       /\ Len(IssuesWhere(IssuesOf(i), ErrorElsewhere)) = 0
                              => recs[i].validation_flag = "OK"
                /\ amount < 0 =>
                       /\ Len(onAmount) = 1
                       /\ onAmount[1].severity = "error"
                       /\ onAmount[1].issue_type # "suspicious"
                       /\ recs[i].validation_flag = "FLAG"

\* A record with total_amount 0.0 and nothing else in error, validated and OK.
C6_Witness ==
    \E i \in DOMAIN recs :
        /\ WasValidated(i)
        /\ recs[i].total_amount = Some(0)
        /\ Len(IssuesWhere(IssuesOf(i), IsError)) = 0
        /\ Len(IssuesWhere(IssuesOf(i), OnTotalAmount)) = 1
        /\ recs[i].validation_flag = "OK"

\* C2 as claimed: the first record validated with a given (cin, challan_no,
\* date_of_deposit) since construction or the last reset gets no 'duplicate'
\* issue, and every later one with that triple, up to the next reset, gets
\* exactly one, an error.
C2_DuplicateIffRepeatedTriple ==
    last.op = "validate" =>
        LET dups == IssuesWhere(IssuesOf(last.id), IsDuplicate)
        IN  IF last.repeat
            THEN Len(dups) = 1 /\ dups[1].severity = "error"
            ELSE Len(dups) = 0

\* C7: the merged map's keys are the union of both maps' keys, and a field
\* that only one of the maps holds has that map's entry, unchanged.
C7_UnionAndSingleSource ==
    ~IsNone(merged) =>
        LET m == Val(merged)
        IN  /\ DOMAIN m = DOMAIN primary \cup DOMAIN secondary
            /\ \A f \in DOMAIN primary \ DOMAIN secondary : m[f] = primary[f]
            /\ \A f \in DOMAIN secondary \ DOMAIN primary : m[f] = secondary[f]

\* A merge of two maps, each holding a field the other lacks.
C7_Witness ==
    /\ ~IsNone(merged)
    /\ "total_amount" \in DOMAIN primary \ DOMAIN secondary
    /\ "tax_a" \in DOMAIN secondary \ DOMAIN primary
    /\ Val(merged)["tax_a"] = secondary["tax_a"]
    /\ Val(merged)["total_amount"] = primary["total_amount"]

\* An empty value: null or the empty text. A stored zero is a found value.
EmptyValue(v) == v = VNone \/ v = VStr(<<>>)

\* C8 as claimed: for a field both maps hold, the entry of strictly higher
\* confidence is kept; on equal confidences the secondary's is kept when the
\* primary's value is empty and the secondary's is not, and the primary's in
\* every other case.
C8_TieBreak ==
    ~IsNone(merged) =>
        \A f \in DOMAIN primary \cap DOMAIN secondary :
            LET p == primary[f]
                s == secondary[f]
                m == Val(merged)[f]
            IN  /\ s.confidence > p.confidence => m = s
                /\ p.confidence > s.confidence => m = p
                /\ s.confidence = p.confidence =>
                       IF EmptyValue(p.value) /\ ~EmptyValue(s.value) THEN m = s ELSE m = p

\* The confidences of the inputs of a process() call that hold the field f.
InputConfidences(p, f) ==
    { m[f].confidence : m \in { n \in {p.text_fields, p.layout_fields, p.ocr_fields} :
                                    f \in DOMAIN n } }

\* C9: in process(), the OCR merge never lowers the confidence of a field of
\* the text+layout map, it replaces an entry by the OCR entry only if the OCR
\* confidence is strictly higher or the confidences tie and the existing value
\* is empty, and the confidence of every merged field is the maximum of the
\* confidences of the inputs that hold it.
C9_OcrNeverDowngrades ==
    proc # None =>
        LET p == Val(proc)
        IN  /\ p.use_ocr =>
                  \A f \in DOMAIN p.merged_before :
                      /\ f \in DOMAIN p.merged_fields
                      /\ p.merged_fields[f].confidence >= p.merged_before[f].confidence
                      /\ p.merged_fields[f] # p.merged_before[f] =>
                             /\ f \in DOMAIN p.ocr_fields
                             /\ p.merged_fields[f] = p.ocr_fields[f]
                             /\ \/ p.ocr_fields[f].confidence > p.merged_before[f].confidence
                                \/ /\ p.ocr_fields[f].confidence = p.merged_before[f].confidence
                                   /\ EmptyValue(p.merged_before[f].value)
            /\ \A f \in DOMAIN p.merged_fields :
                  /\ p.merged_fields[f].confidence \in InputConfidences(p, f)
                  /\ \A c \in InputConfidences(p, f) : c <= p.merged_fields[f].confidence

\* An OCR merge that keeps an entry on a tie and replaces another by a more
\* confident OCR entry.
C9_Witness ==
    /\ proc # None
    /\ Val(proc).use_ocr
    /\ \E f \in DOMAIN Val(proc).merged_before \cap DOMAIN Val(proc).ocr_fields :
           /\ Val(proc).ocr_fields[f].confidence = Val(proc).merged_before[f].confidence
           /\ Val(proc).merged_fields[f] = Val(proc).merged_before[f]
    /\ \E g \in DOMAIN Val(proc).merged_before \cap DOMAIN Val(proc).ocr_fields :
           /\ Val(proc).ocr_fields[g].confidence > Val(proc).merged_before[g].confidence
           /\ Val(proc).merged_fields[g] = Val(proc).ocr_fields[g]

\* C10: process() returns an ExtractionResult whatever raises in the text,
\* layout and OCR extractors and in record building: success with a record and
\* extraction_method text or text+ocr, or failure with an error_message and
\* no record.
C10_ResultShape ==
    proc # None =>
        LET result == Val(proc).result
        IN  \/ /\ result.success
               /\ ~IsNone(result.record)
               /\ result.extraction_method \in {"text", "text+ocr"}
            \/ /\ ~result.success
               /\ ~IsNone(result.error_message)
               /\ IsNone(result.record)

\* A call in which the three extractors and record building all raised.
C10_Witness ==
    /\ proc # None
    /\ Val(proc).raised = {"text", "layout", "ocr", "build"}
    /\ ~Val(proc).result.success

\* The required fields that hold a non-null value in a field map.
RequiredFound(fields) ==
    { f \in {"tan", "cin", "total_amount", "date_of_deposit", "challan_no"} :
        f \in DOMAIN fields /\ fields[f].value # VNone }

\* Every strategy invoked by the process() call raised.
EveryStrategyFailed ==
    /\ proc # None
    /\ {"text", "layout"} \subseteq Val(proc).raised
    /\ Val(proc).use_ocr => "ocr" \in Val(proc).raised

\* C11 as claimed: when every strategy invoked on the document fails,
\* process() returns success=false with an error_message, not success=true
\* with an empty record.
C11_TotalFailureReported ==
    EveryStrategyFailed =>
        /\ ~Val(proc).result.success
        /\ ~IsNone(Val(proc).result.error_message)

\* C12: OCR is invoked at most once in a process() call, after the text and
\* layout extractions and their merge, and only if at most 3 of the 5 required
\* fields hold a non-null value in that merged map; never when 4 or 5 do.
C12_OcrOnlyBelowThreshold ==
    proc # None =>
        LET p == Val(proc)
            ocr_calls == { k \in 1..Len(p.calls) : p.calls[k] = "ocr" }
        IN  /\ Cardinality(ocr_calls) <= 1
            /\ \A k \in ocr_calls : SubSeq(p.calls, 1, k - 1) = <<"text", "layout", "merge">>
            /\ ocr_calls # {} => Cardinality(RequiredFound(p.merged_before)) <= 3
            /\ Cardinality(RequiredFound(p.merged_before)) >= 4 => ocr_calls = {}

\* An OCR call at exactly 3 of 5 required fields, 3 of them from the text.
C12_Witness ==
    /\ proc # None
    /\ \E k \in 1..Len(Val(proc).calls) : Val(proc).calls[k] = "ocr"
    /\ Cardinality(RequiredFound(Val(proc).merged_before)) = 3
    /\ Cardinality(RequiredFound(Val(proc).text_fields)) = 3

\* The issues of a result rendered as (field, message) pairs in their order.
Rendered(issues) == [k \in 1..Len(issues) |-> <<issues[k].field, issues[k].message>>]

\* C13 as claimed: after every validate(record), record.notes is the rendering
\* of the issues of that call, so notes of an earlier validation do not
\* survive a later one.
C13_NotesAreThisCallsIssues ==
    last.op = "validate" =>
        recs[last.id].notes = Rendered(IssuesOf(last.id))

\* C14 as claimed: a record gets a 'duplicate' issue only if a record with the
\* identical (cin, challan_no, date_of_deposit) triple was validated before it
\* in the same validator scope; triples that differ in any component never
\* make each other duplicates.
C14_DuplicateOnlyForIdenticalTriple ==
    (last.op = "validate" /\ Len(IssuesWhere(IssuesOf(last.id), IsDuplicate)) > 0)
        => last.repeat

\* The text that is digested: cin, challan_no and date_of_deposit (as
\* YYYY-MM-DD) one after the other, an absent one as the empty text.
TripleText(r) ==
    (IF IsNone(r.cin) THEN <<>> ELSE Val(r.cin))
        \o (IF IsNone(r.challan_no) THEN <<>> ELSE Val(r.challan_no))
        \o (IF IsNone(r.date_of_deposit) THEN <<>> ELSE DateStr(Val(r.date_of_deposit)))

\* C15: the record returned by process(), and every record after a validate()
\* of it (a manual change of cin, challan_no or date_of_deposit included),
\* carries the digest of its current cin, challan_no and date_of_deposit,
\* absent ones taken as empty, and of nothing else.
C15_HashIsDigestOfTriple ==
    /\ (proc # None /\ Val(proc).result.success) =>
           LET record == Val(Val(proc).result.record)
           IN  record.record_hash = Some(TripleText(record))
    /\ \A i \in DOMAIN recs : recs[i].record_hash = Some(TripleText(recs[i]))

\* A record validated after a manual change of its triple, whose hash is no
\* longer the one process() gave it.
C15_Witness ==
    /\ proc # None
    /\ last.op = "update"
    /\ Triple(recs[last.id]) # Triple(Val(Val(proc).result.record))
    /\ recs[last.id].record_hash # Val(Val(proc).result.record).record_hash

\* C16: on a shared validator without a lock, the membership test and the
\* insert of _check_duplicate are separate steps: a record gets the 'duplicate'
\* issue exactly when its own test found the hash, whatever was inserted
\* between that test and its insert, so two records with the same triple can
\* both be validated without either getting the issue.
C16_DuplicateIffTestFound ==
    \A i \in DOMAIN threads :
        threads[i].pc = "done" =>
            (Len(IssuesWhere(IssuesOf(i), IsDuplicate)) > 0 <=> threads[i].found)

\* Two threads have finished, their records have the same triple, and neither
\* record has a 'duplicate' issue.
C16_Witness ==
    \E i, j \in DOMAIN threads :
        /\ i # j
        /\ threads[i].pc = "done" /\ threads[j].pc = "done"
        /\ Triple(recs[i]) = Triple(recs[j])
        /\ Len(IssuesWhere(IssuesOf(i), IsDuplicate)) = 0
        /\ Len(IssuesWhere(IssuesOf(j), IsDuplicate)) = 0
        /\ recs[i].validation_flag = "OK" /\ recs[j].validation_flag = "OK"

\* The number of issues of a list that are on field f.
IssuesOn(issues, f) == Cardinality({ k \in 1..Len(issues) : issues[k].field = f })

\* The rules a record violates on day t, each named by the field its issue is
\* on: TAN, CIN, amount, sum-check (of a total that is there), deposit date,
\* the four descriptive fields, and duplicate (repeated: its triple was
\* validated before).
ViolatedRules(r, t, repeated) ==
    { f \in {"tan"} : ~TruthyStr(r.tan) \/ ~TanPatternMatches(Val(r.tan)) }
    \cup { f \in {"cin"} : ~TruthyStr(r.cin) \/ Len(Val(r.cin)) < cin_min_length }
    \cup { f \in {"total_amount"} : IsNone(r.total_amount) \/ Val(r.total_amount) <= 0 }
    \cup { f \in {"tax_breakup"} :
             /\ ~IsNone(r.total_amount)
             /\ \/ TaxTotal(r.tax_breakup) - Val(r.total_amount) > sum_check_tolerance
                \/ Val(r.total_amount) - TaxTotal(r.tax_breakup) > sum_check_tolerance }
    \cup { f \in {"date_of_deposit"} :
             \/ IsNone(r.date_of_deposit)
             \/ Ordinal(Val(r.date_of_deposit)) > Ordinal(t)
             \/ Ordinal(t) - Ordinal(Val(r.date_of_deposit)) > OldDateDays }
    \cup { f \in {"challan_no", "bsr_code", "bank_name", "deductor_name"} : ~TruthyStr(r[f]) }
    \cup { f \in {"record"} : repeated }

\* C17: validate() returns a result for every record, and its issue list holds
\* one issue for each rule the record violates, however many rules fail at
\* once; a record without TAN, CIN and amount has an error on each of the three.
C17_IssuesAccumulate ==
    last.op = "validate" =>
        LET r        == recs[last.id]
            issues   == IssuesOf(last.id)
            violated == ViolatedRules(r, today, last.repeat)
        IN  /\ WasValidated(last.id)
            /\ \A f \in violated : IssuesOn(issues, f) = 1
            /\ (IsNone(r.tan) /\ IsNone(r.cin) /\ IsNone(r.total_amount)) =>
                   \A f \in {"tan", "cin", "total_amount"} :
                       \E k \in 1..Len(issues) : issues[k].field = f /\ IsError(issues[k])

\* A record that violates every rule it can violate at once, a duplicate with
\* a total that is there but negative, and has the seven kinds of issue together.
C17_Witness ==
    /\ last.op = "validate"
    /\ {"tan", "cin", "total_amount", "tax_breakup", "date_of_deposit", "challan_no", "record"}
           \subseteq ViolatedRules(recs[last.id], today, last.repeat)
    /\ Len(IssuesOf(last.id)) >= 7

\* C18: when an extractor raises in a process() call on a path object while
\* another one returns, the call returns success=true; the extractor that
\* raised contributes the empty map, so the merged map is the merge of the
\* others alone, and every field they found is in the merged map and in the
\* record's field confidences.
C18_FailedStrategyIsEmpty ==
    (proc # None /\ "build" \notin Val(proc).raised) =>
        LET p == Val(proc)
            strategies == {"text", "layout"} \cup (IF p.use_ocr THEN {"ocr"} ELSE {})
            fields_of(st) == CASE st = "text" -> p.text_fields
                               [] st = "layout" -> p.layout_fields
                               [] OTHER -> p.ocr_fields
        IN  (strategies \cap p.raised # {} /\ strategies \ p.raised # {}) =>
                /\ p.result.success
                /\ \A st \in strategies \cap p.raised : fields_of(st) = <<>>
                /\ "text" \in p.raised => p.merged_before = p.layout_fields
                /\ "layout" \in p.raised => p.merged_before = p.text_fields
                /\ "ocr" \in p.raised => p.merged_fields = p.merged_before
                /\ \A st \in strategies \ p.raised : \A f \in DOMAIN fields_of(st) :
                       /\ f \in DOMAIN p.merged_fields
                       /\ f \in DOMAIN Val(p.result.record).field_confidences

\* The text extractor raised, the layout extractor found the total amount,
\* and the record of the successful result carries the layout's entries.
C18_Witness ==
    /\ proc # None
    /\ "text" \in Val(proc).raised
    /\ "layout" \notin Val(proc).raised
    /\ "total_amount" \in DOMAIN Val(proc).layout_fields
    /\ Val(proc).result.success
    /\ Val(Val(proc).result.record).field_confidences = Val(proc).layout_fields

\* What field f adds to the numerator and to the denominator of the row
\* confidence with weight w (in halves): nothing if the map does not hold it.
Share(fields, f, w) ==
    IF f \in DOMAIN fields THEN <<w * fields[f].confidence, w>> ELSE <<0, 0>>

C20_TextAmountKeepsDecimals ==
    proc # None =>
        \A f \in DOMAIN Val(proc).text_fields \cap {"total_amount", "tax_a"} :
            LET entry == Val(proc).text_fields[f]
            IN  (/\ entry.extraction_method = "text_regex"
                 /\ ~IsNone(FloatWithoutCommas(Val(entry.raw_text))))
                    => entry.value = VNum(Val(FloatWithoutCommas(Val(entry.raw_text))))

\* The six tax-breakup fields.
TaxFields == {"tax_a", "tax_b", "tax_c", "tax_d", "tax_e", "tax_f"}

\* A map holds all six tax fields, and each one without a match is the
\* default: 0.0 at confidence 0.8 with no raw text.
AllTaxFields(fields) ==
    /\ TaxFields \subseteq DOMAIN fields
    /\ \A f \in TaxFields :
           \/ fields[f].extraction_method = "text_regex" /\ ~IsNone(fields[f].raw_text)
           \/ fields[f] = FieldConfidence(VNum(0), 80, "default", None)

\* C21 as claimed: for every document the text extractor returns a map for,
\* the map holds tax_a..tax_f, the unmatched ones as 0.0 at confidence 0.8.
C21_TaxFieldsAlways ==
    (proc # None /\ "text" \notin Val(proc).raised) => AllTaxFields(Val(proc).text_fields)

\* C22 as claimed: in the text extractor's map, a total_amount whose matched
\* text does not parse has confidence 0.6, and a date_of_deposit whose matched
\* text parses under none of the date formats has confidence 0.5, not the
\* generic 0.3.
C22_UnparseableKeepsFieldConfidence ==
    proc # None =>
        LET fields == Val(proc).text_fields
        IN  /\ ("total_amount" \in DOMAIN fields /\ fields["total_amount"].value = VNone)
                   => fields["total_amount"].confidence = 60
            /\ ("date_of_deposit" \in DOMAIN fields /\ fields["date_of_deposit"].value = VNone)
                   => fields["date_of_deposit"].confidence = 50

\* The line of the result that holds block b.
LineOf(b) == CHOOSE n \in 1..Len(Val(lines)) : \E k \in 1..Len(Val(lines)[n]) : Val(lines)[n][k] = b

\* C23 as claimed: in the order by vertical then horizontal position, a
\* fragment is in the line of its predecessor when their vertical positions
\* differ by no more than 5 (so y = 0, 4, 8 is one line) and starts a new line
\* when they differ by more, and each line runs from left to right.
C23_ConsecutiveWithinToleranceShareLine ==
    lines # None =>
        LET sorted_blocks == Sorted(blocks, <<"y0", "x0">>)
        IN  /\ \A k \in 1..(Len(sorted_blocks) - 1) :
                   LET a == sorted_blocks[k]
                       b == sorted_blocks[k + 1]
                   IN  IF b.y0 - a.y0 <= 5
                       THEN LineOf(a) = LineOf(b)
                       ELSE LineOf(b) = LineOf(a) + 1
            /\ \A n \in 1..Len(Val(lines)) : \A k \in 1..(Len(Val(lines)[n]) - 1) :
                   Val(lines)[n][k].x0 <= Val(lines)[n][k + 1].x0

\* The highest confidence the OCR extractor gives field f, in hundredths.
OcrCap(f) == IF f \in TaxFields THEN 75 ELSE 70

\* C24: an entry of the OCR extractor has confidence at most 0.7, a tax entry
\* at most 0.75, and a tax field the OCR text does not give is 0.0 at 0.6; so
\* the merge with the OCR map keeps every text or layout entry whose
\* confidence is above 0.7, for a tax field above 0.75.
C24_OcrConfidenceCapped ==
    (proc # None /\ Val(proc).use_ocr /\ "ocr" \notin Val(proc).raised) =>
        LET p == Val(proc)
        IN  /\ TaxFields \subseteq DOMAIN p.ocr_fields
            /\ \A f \in DOMAIN p.ocr_fields :
                   /\ p.ocr_fields[f].confidence <= OcrCap(f)
                   /\ p.ocr_fields[f].extraction_method \in {"ocr", "ocr_default"}
                   /\ p.ocr_fields[f].extraction_method = "ocr_default" =>
                          /\ f \in TaxFields
                          /\ p.ocr_fields[f].value = VNum(0)
                          /\ p.ocr_fields[f].confidence = 60
                   /\ (f \in TaxFields /\ IsNone(p.ocr_fields[f].raw_text)) =>
                          p.ocr_fields[f].extraction_method = "ocr_default"
            /\ \A f \in DOMAIN p.merged_before :
                   p.merged_before[f].confidence > OcrCap(f) =>
                       p.merged_fields[f] = p.merged_before[f]

\* The OCR text gives a CIN and a tax_a other than the text's: the text's
\* entries, above the caps, stay, and the OCR's date, which the text lacks, comes in.
C24_Witness ==
    /\ proc # None /\ Val(proc).use_ocr /\ "ocr" \notin Val(proc).raised
    /\ LET p == Val(proc)
       IN  /\ {"cin", "tax_a"} \subseteq DOMAIN p.merged_before
           /\ p.merged_before["cin"].confidence > 70
           /\ p.merged_before["tax_a"].confidence > 75
           /\ p.ocr_fields["tax_a"].extraction_method = "ocr"
           /\ "cin" \in DOMAIN p.ocr_fields
           /\ p.ocr_fields["cin"].value # p.merged_before["cin"].value
           /\ p.ocr_fields["tax_a"].value # p.merged_before["tax_a"].value
           /\ p.merged_fields["cin"] = p.merged_before["cin"]
           /\ p.merged_fields["tax_a"] = p.merged_before["tax_a"]
           /\ "date_of_deposit" \notin DOMAIN p.merged_before
           /\ "date_of_deposit" \in DOMAIN p.ocr_fields
           /\ p.merged_fields["date_of_deposit"].extraction_method = "ocr"

\* C25: validate_batch starts from an empty seen-hash set and validates in
\* list order: a record of the batch has a 'duplicate' issue exactly when a
\* record earlier in the list has its hash, whatever the validator had seen
\* before the call, and the set then holds the hashes of the batch alone.
C25_BatchStartsFromEmptyCache ==
    last.op = "batch" =>
        /\ \A k \in DOMAIN last.order :
               Len(IssuesWhere(IssuesOf(last.order[k]), IsDuplicate)) > 0
                   <=> \E j \in 1..(k - 1) :
                           recs[last.order[j]].record_hash = recs[last.order[k]].record_hash
        /\ seen = { Val(recs[last.order[k]].record_hash) : k \in DOMAIN last.order }

\* A batch whose first record has a hash the validator had seen before the
\* call and gets no 'duplicate' issue, and whose second record repeats it and
\* gets one.
C25_Witness ==
    /\ last.op = "batch"
    /\ Len(last.order) >= 2
    /\ Val(recs[last.order[1]].record_hash) \in last.seen_before
    /\ Len(IssuesWhere(IssuesOf(last.order[1]), IsDuplicate)) = 0
    /\ recs[last.order[1]].validation_flag = "OK"
    /\ Len(IssuesWhere(IssuesOf(last.order[2]), IsDuplicate)) = 1
    /\ recs[last.order[2]].validation_flag = "FLAG"

\* C26: _merge_fields leaves both of its input maps as they were, keys and
\* entries alike, and every entry of the map it returns is an entry of one of
\* the inputs for that field, unmodified.
C26_MergeLeavesInputsUnchanged ==
    [][ /\ primary' = primary
        /\ secondary' = secondary
        /\ ~IsNone(merged') =>
               /\ DOMAIN Val(merged') = DOMAIN primary \cup DOMAIN secondary
               /\ \A f \in DOMAIN Val(merged') :
                      \/ f \in DOMAIN primary /\ Val(merged')[f] = primary[f]
                      \/ f \in DOMAIN secondary /\ Val(merged')[f] = secondary[f] ]_vars

\* A merge that took one entry from the secondary map and kept one of the
\* primary's, so that the merged map differs from both inputs.
C26_Witness ==
    /\ ~IsNone(merged)
    /\ DOMAIN primary = MergeFieldNames
    /\ DOMAIN secondary = MergeFieldNames
    /\ Val(merged)["total_amount"] = secondary["total_amount"]
    /\ Val(merged)["total_amount"] # primary["total_amount"]
    /\ Val(merged)["tax_a"] = primary["tax_a"]
    /\ Val(merged)["tax_a"] # secondary["tax_a"]

\* C27 as claimed: on equal confidences the merge keeps the primary's entry
\* whenever the primary's value is a found one, a stored zero included, and
\* takes the secondary's only when the primary's value is empty and the
\* secondary's is not.
C27_TieKeepsFoundPrimary ==
    ~IsNone(merged) =>
        \A f \in DOMAIN primary \cap DOMAIN secondary :
            primary[f].confidence = secondary[f].confidence =>
                /\ ~EmptyValue(primary[f].value) => Val(merged)[f] = primary[f]
                /\ Val(merged)[f] = secondary[f] /\ secondary[f] # primary[f] =>
                       EmptyValue(primary[f].value) /\ ~EmptyValue(secondary[f].value)

\* C28 as claimed: when the merged map of process() holds no total amount (the
\* field is absent, or its value is null), the validated record carries a
\* 'missing' error on total_amount and is flagged.
C28_AbsentAmountIsError ==
    (/\ ~IsNone(proc)
     /\ 1 \in DOMAIN recs
     /\ last.op = "validate"
     /\ \/ "total_amount" \notin DOMAIN Val(proc).merged_fields
        \/ Val(proc).merged_fields["total_amount"].value = VNone)
    => /\ \E k \in DOMAIN IssuesOf(1) :
              /\ IssuesOf(1)[k].field = "total_amount"
              /\ IssuesOf(1)[k].issue_type = "missing"
              /\ IssuesOf(1)[k].severity = "error"
       /\ recs[1].validation_flag = "FLAG"

\* C29 as claimed: the processed counter of a session never exceeds
\* total_files, and a completed session has processed = total_files.
C29_ProcessedWithinTotal ==
    ~IsNone(session) =>
        /\ Val(session).processed <= Val(session).total_files
        /\ Val(session).status = "completed" =>
               Val(session).processed = Val(session).total_files

====
